---- MODULE Spec2Model ----
(***************************************************************************)
(* Model of the face matcher's request broker and inference gateway.       *)
(*                                                                         *)
(* Primary context : FaceRecognitionService                                *)
(*                   (src/app/core/services/face-recognition.service.ts)   *)
(* Worker context  : the message listener of                               *)
(*                   src/app/workers/face-processor.worker.ts              *)
(*                                                                         *)
(* The two contexts exchange messages over two FIFO channels: inbox        *)
(* (primary -> worker) and outbox (worker -> primary).  Each context runs  *)
(* one handler at a time, but a handler suspended at an await (engine      *)
(* construction, forward pass) lets the next message be dispatched.        *)
(*                                                                         *)
(* The gallery operations of the service (addKnownFace, deleteKnownFace,   *)
(* matchFace) and the application's frame loop and uploads                 *)
(* (AppComponent.processFrame, processFile) are modelled by separate       *)
(* specifications over their own variables; a specification keeps the      *)
(* variables of the others at their initial values.                        *)
(***************************************************************************)
EXTENDS Integers, Sequences, FiniteSets, TLC

\* ---------------------------------------------------------------- bounds
\* number of getEmbedding calls issued in a run
MaxCalls == 2
\* number of LOAD_MODEL messages posted to the worker after the constructor's
MaxLoads == 2

\* ------------------------------------------------------------- constants
\* value of a message's id field when the message carries none (undefined)
NoId == 0
\* value of the worker's session variable while it is null
NoSession == 0

\* the identifiers crypto.randomUUID can return
Ids == 1..MaxCalls
\* the ImageData buffers a caller can pass to getEmbedding, numbered in the
\* order in which they are first handed over
Buffers == 1..MaxCalls
\* the embeddings a forward pass can return
Embeddings == {"e1", "e2"}

VARIABLES
    worker,           \* service: this.worker is not null
    isModelLoaded,    \* service: isModelLoaded signal
    pendingRequests,  \* service: Map id -> index of the call owning {resolve, reject}
    calls,            \* promises returned by getEmbedding, in call order
    usedIds,          \* identifiers randomUUID has returned so far
    detached,         \* buffers whose ownership was transferred to the worker
    handlerThrew,     \* an exception escaped worker.onmessage
    inbox,            \* messages posted to the worker, not yet dispatched
    outbox,           \* messages posted by the worker, not yet delivered
    session,          \* worker: session (NoSession or the engine instance)
    isLoading,        \* worker: isLoading
    creating,         \* worker: InferenceSession.create calls still awaited
    created,          \* worker: engine instances constructed so far
    running,          \* worker: ids whose session.run is still awaited
    loadsPosted,      \* LOAD_MODEL messages posted after construction
    answers,          \* per id, the RESULT and ERROR messages the worker posted
    last,             \* the operation that produced this state
    knownFaces,       \* service: knownFaces signal (the gallery)
    useBGR,           \* service: useBGR signal
    now,              \* the value Date.now() returns
    query,            \* the embedding of the last matchFace call
    matchResult,      \* the value the last matchFace call returned
    bestScore,        \* matchFace: bestScore after the scan (line 108)
    bestMatch,        \* matchFace: bestMatch after the scan (line 108)
    isCameraActive,   \* app: isCameraActive signal
    captureNextFrame, \* app: captureNextFrame
    snapshots,        \* triggerSnapshot calls made so far
    captures,         \* faces the frame loop has enrolled so far
    loops,            \* app: the processFrame chains started by loadedmetadata
    uploads,          \* app: the processFile invocations started so far
    currentMatch,     \* app: currentMatch signal
    srcPoints,        \* estimateAffineTransform: its argument
    alignResult,      \* estimateAffineTransform: what the call produced
    inputData,        \* runInference: the RGBA samples of its image
    inputBGR,         \* runInference: its useBGR argument
    tensorData,       \* runInference: the tensor handed to session.run
    sharedCanvas,     \* warpFace: the cells of sharedCanvas, <<>> while null
    warpCalls,        \* warpFace: calls made so far
    warpSource,       \* warpFace: the source of the last call
    warpMatrix,       \* warpFace: the matrix of the last call
    bitmap,           \* warpFace: the cells of the bitmap it returned
    runningMode,      \* detector service: runningMode
    configured,       \* the running mode in force in faceLandmarker
    files,            \* the processFile invocations at the detector
    invoked           \* the last detection call and the mode it ran under

serviceVars == <<worker, isModelLoaded, pendingRequests, calls, usedIds,
                 detached, handlerThrew>>
workerVars == <<session, isLoading, creating, created, running>>
\* the broker and the worker
brokerState == <<worker, isModelLoaded, pendingRequests, calls, usedIds,
                 detached, handlerThrew, inbox, outbox, session, isLoading,
                 creating, created, running, loadsPosted, answers>>
\* the gallery of the service
galleryVars == <<knownFaces, useBGR, now, query, matchResult>>
\* the locals of matchFace between its scan and its threshold step
remapVars == <<bestScore, bestMatch>>
\* the application component
frameVars == <<isCameraActive, captureNextFrame, snapshots, captures, loops,
               uploads, currentMatch>>
\* the image functions, each exercised by a specification of its own
kernelVars == <<srcPoints, alignResult, inputData, inputBGR, tensorData,
                sharedCanvas, warpCalls, warpSource, warpMatrix, bitmap,
                runningMode, configured, files, invoked>>
\* everything outside the broker and the worker
appState == <<galleryVars, remapVars, frameVars, kernelVars>>
vars == <<brokerState, appState, last>>

\* ------------------------------------------------------------- rationals
\* a number written as <<numerator, denominator>>, denominator positive
\* (exact arithmetic; floating-point rounding is not modelled)
Rat(n, d) == <<n, d>>
\* the value a matchFace result holds before any call was made
NoResult == [name |-> "", score |-> Rat(0, 1)]
\* the value of query before any matchFace call
NoQuery == <<>>

\* the initial values of the variables a specification does not use
GalleryIdle ==
    /\ knownFaces = <<>>
    /\ useBGR = FALSE
    /\ now = 0
    /\ query = NoQuery
    /\ matchResult = NoResult
RemapIdle ==
    /\ bestScore = Rat(-1, 1)
    /\ bestMatch = "Unknown"
FrameIdle ==
    /\ isCameraActive = FALSE
    /\ captureNextFrame = FALSE
    /\ snapshots = 0
    /\ captures = 0
    /\ loops = <<>>
    /\ uploads = <<>>
    /\ currentMatch = <<"Unknown">>
\* no call of estimateAffineTransform was made
NoAlign == [threw |-> FALSE, matrix |-> <<>>]
AlignIdle ==
    /\ srcPoints = <<>>
    /\ alignResult = NoAlign
\* no call of runInference was made
TensorIdle ==
    /\ inputData = <<>>
    /\ inputBGR = FALSE
    /\ tensorData = <<>>
\* no call of warpFace was made (line 93: sharedCanvas = null)
WarpIdle ==
    /\ sharedCanvas = <<>>
    /\ warpCalls = 0
    /\ warpSource = <<>>
    /\ warpMatrix = <<>>
    /\ bitmap = <<>>
\* the detector after initialize, lines 12 and 26-35
DetectorIdle ==
    /\ runningMode = "VIDEO"
    /\ configured = "VIDEO"
    /\ files = <<>>
    /\ invoked = [call |-> "none", mode |-> "VIDEO"]
KernelIdle == AlignIdle /\ TensorIdle /\ WarpIdle /\ DetectorIdle

\* ------------------------------------------------------------- messages
\* a message to the worker: { type, payload: { imageBuffer, id } }
ToWorker(type, id, buf) == [type |-> type, id |-> id, buf |-> buf]
\* a message from the worker: { type, payload, id }; payloads are written
\* as strings, the boolean true of MODEL_LOADED as "true"
FromWorker(type, payload, id) == [type |-> type, payload |-> payload, id |-> id]

\* ------------------------------------------------------------- promises
\* a promise returned by getEmbedding and the id its record was stored under
NewCall(id, state, value, settles) ==
    [id |-> id, state |-> state, value |-> value, settles |-> settles]

\* invoking resolve or reject of call c: only the first invocation settles
\* the promise, every invocation is counted
Settle(cs, c, state, value) ==
    [cs EXCEPT ![c] =
        IF @.state = "pending"
        THEN [@ EXCEPT !.state = state, !.value = value, !.settles = @ + 1]
        ELSE [@ EXCEPT !.settles = @ + 1]]

\* Map.delete
MapDelete(m, k) == [x \in (DOMAIN m) \ {k} |-> m[x]]
\* Map.set
MapSet(m, k, v) == [x \in (DOMAIN m) \cup {k} |-> IF x = k THEN v ELSE m[x]]

\* ------------------------------------------------------------------ Init
\* the state after the service's constructor ran: initWorker has created the
\* worker (when the environment has Worker) and posted LOAD_MODEL
Init ==
    /\ worker \in BOOLEAN
    /\ isModelLoaded = FALSE
    /\ pendingRequests = <<>>
    /\ calls = <<>>
    /\ usedIds = {}
    /\ detached = {}
    /\ handlerThrew = FALSE
    /\ inbox = IF worker THEN <<ToWorker("LOAD_MODEL", NoId, 0)>> ELSE <<>>
    /\ outbox = <<>>
    /\ session = NoSession
    /\ isLoading = FALSE
    /\ creating = 0
    /\ created = 0
    /\ running = {}
    /\ loadsPosted = 0
    /\ answers = [i \in Ids |-> 0]
    /\ last = "init"
    /\ GalleryIdle /\ RemapIdle /\ FrameIdle /\ KernelIdle

\* ------------------------------------------------- FaceRecognitionService
\* crypto.randomUUID: the values a call can return (never one returned before)
randomUUID == Ids \ usedIds

\* getEmbedding, line 65: no worker, the call is rejected on the spot
NoWorkerRejectStoresRecord ==
    /\ calls' = Append(calls, NewCall(NoId, "rejected", "No Worker", 1))
    /\ \E id \in randomUUID :
          /\ pendingRequests' = MapSet(pendingRequests, id, Len(calls) + 1)
          /\ usedIds' = usedIds \cup {id}
    /\ last' = "getEmbedding:NoWorker"
    /\ UNCHANGED <<detached, inbox>>
NoWorkerReject ==
    /\ calls' = Append(calls, NewCall(NoId, "rejected", "No Worker", 1))
    /\ last' = "getEmbedding:NoWorker"
    /\ UNCHANGED <<pendingRequests, usedIds, detached, inbox>>

\* getEmbedding, lines 67-77: the promise executor.  The record is stored
\* first; postMessage with the transfer list [buffer] throws DataCloneError
\* when the buffer is already detached, and an exception in the executor
\* rejects the promise.
IssueCall(b) ==
    \E id \in randomUUID :
       /\ pendingRequests' = MapSet(pendingRequests, id, Len(calls) + 1)
       /\ usedIds' = usedIds \cup {id}
       /\ IF b \in detached
          THEN /\ calls' = Append(calls, NewCall(id, "rejected", "DataCloneError", 1))
               /\ last' = "getEmbedding:throw"
               /\ UNCHANGED <<detached, inbox>>
          ELSE /\ calls' = Append(calls, NewCall(id, "pending", "", 0))
               /\ inbox' = Append(inbox, ToWorker("RECOGNIZE", id, b))
               /\ detached' = detached \cup {b}
               /\ last' = "getEmbedding:posted"

getEmbedding(b) ==
    /\ Len(calls) < MaxCalls
    /\ b <= Cardinality(detached) + 1
    /\ IF ~worker THEN NoWorkerReject ELSE IssueCall(b)
    /\ UNCHANGED <<worker, isModelLoaded, handlerThrew, outbox, workerVars,
                   loadsPosted, answers, appState>>

\* worker.onmessage, case 'MODEL_LOADED'
OnModelLoaded(m) ==
    /\ isModelLoaded' = (m.payload = "true")
    /\ last' = "onmessage:MODEL_LOADED"
    /\ UNCHANGED <<pendingRequests, calls, handlerThrew>>

\* worker.onmessage, case 'RESULT'
OnResultRejects(m) ==
    IF m.id # NoId /\ m.id \in DOMAIN pendingRequests
    THEN /\ calls' = Settle(calls, pendingRequests[m.id], "rejected", m.payload)
         /\ pendingRequests' = MapDelete(pendingRequests, m.id)
         /\ last' = "onmessage:RESULT"
         /\ UNCHANGED <<isModelLoaded, handlerThrew>>
    ELSE /\ last' = "onmessage:dropped"
         /\ UNCHANGED <<isModelLoaded, pendingRequests, calls, handlerThrew>>
OnResult(m) ==
    IF m.id # NoId /\ m.id \in DOMAIN pendingRequests
    THEN /\ calls' = Settle(calls, pendingRequests[m.id], "resolved", m.payload)
         /\ pendingRequests' = MapDelete(pendingRequests, m.id)
         /\ last' = "onmessage:RESULT"
         /\ UNCHANGED <<isModelLoaded, handlerThrew>>
    ELSE /\ last' = "onmessage:dropped"
         /\ UNCHANGED <<isModelLoaded, pendingRequests, calls, handlerThrew>>

\* worker.onmessage, case 'ERROR'
OnErrorUnguarded(m) ==
    IF m.id \in DOMAIN pendingRequests
    THEN /\ calls' = Settle(calls, pendingRequests[m.id], "rejected", m.payload)
         /\ pendingRequests' = MapDelete(pendingRequests, m.id)
         /\ last' = "onmessage:ERROR"
         /\ UNCHANGED <<isModelLoaded, handlerThrew>>
    ELSE /\ handlerThrew' = TRUE
         /\ last' = "onmessage:dropped"
         /\ UNCHANGED <<isModelLoaded, pendingRequests, calls>>
OnError(m) ==
    IF m.id # NoId /\ m.id \in DOMAIN pendingRequests
    THEN /\ calls' = Settle(calls, pendingRequests[m.id], "rejected", m.payload)
         /\ pendingRequests' = MapDelete(pendingRequests, m.id)
         /\ last' = "onmessage:ERROR"
         /\ UNCHANGED <<isModelLoaded, handlerThrew>>
    ELSE /\ last' = "onmessage:dropped"
         /\ UNCHANGED <<isModelLoaded, pendingRequests, calls, handlerThrew>>

\* worker.onmessage: the primary context handles the next message of the worker
OnMessage ==
    /\ outbox # <<>>
    /\ outbox' = Tail(outbox)
    /\ LET m == Head(outbox) IN
         CASE m.type = "MODEL_LOADED" -> OnModelLoaded(m)
           [] m.type = "RESULT" -> OnResult(m)
           [] m.type = "ERROR" -> OnError(m)
    /\ UNCHANGED <<worker, usedIds, detached, inbox, workerVars, loadsPosted,
                   answers, appState>>

\* a LOAD_MODEL message posted to the worker: initWorker posts the first
\* (line 54, part of Init); the listener accepts the message at any time
PostLoadModel ==
    /\ worker
    /\ loadsPosted < MaxLoads
    /\ loadsPosted' = loadsPosted + 1
    /\ inbox' = Append(inbox, ToWorker("LOAD_MODEL", NoId, 0))
    /\ last' = "postMessage:LOAD_MODEL"
    /\ UNCHANGED <<serviceVars, outbox, workerVars, answers, appState>>

\* ------------------------------------------------ face-processor.worker
\* case 'LOAD_MODEL', line 13: the guard of the construction
LoadGuardIgnoresLoading == session = NoSession
LoadGuardIgnoresSession == ~isLoading
LoadGuard == session = NoSession /\ ~isLoading

\* case 'LOAD_MODEL', lines 13-19: up to the await of InferenceSession.create
LoadModel ==
    IF LoadGuard
    THEN /\ isLoading' = TRUE
         /\ creating' = creating + 1
         /\ last' = "LOAD_MODEL:create"
         /\ UNCHANGED <<session, created, running, outbox, answers>>
    ELSE /\ last' = "LOAD_MODEL:ignored"
         /\ UNCHANGED <<workerVars, outbox, answers>>

\* case 'RECOGNIZE', lines 34-40: no engine, the request is answered at once
RecognizeNoSessionDropsId(m) ==
    /\ outbox' = Append(outbox, FromWorker("ERROR", "Model not loaded", NoId))
    /\ last' = "RECOGNIZE:not loaded"
    /\ UNCHANGED <<workerVars, answers>>
RecognizeNoSessionSilent(m) ==
    /\ last' = "RECOGNIZE:not loaded"
    /\ UNCHANGED <<workerVars, outbox, answers>>
RecognizeNoSession(m) ==
    /\ outbox' = Append(outbox, FromWorker("ERROR", "Model not loaded", m.id))
    /\ answers' = [answers EXCEPT ![m.id] = @ + 1]
    /\ last' = "RECOGNIZE:not loaded"
    /\ UNCHANGED workerVars

\* case 'RECOGNIZE', lines 41-45 and runInference up to the await of
\* session.run (line 123): the forward pass of this request is started
RecognizeRun(m) ==
    /\ running' = running \cup {m.id}
    /\ last' = "RECOGNIZE:run"
    /\ UNCHANGED <<session, isLoading, creating, created, outbox, answers>>

\* case 'RECOGNIZE'
Recognize(m) ==
    IF session = NoSession THEN RecognizeNoSession(m) ELSE RecognizeRun(m)

\* the listener is invoked with the next message of the primary context
OnWorkerMessage ==
    /\ inbox # <<>>
    /\ inbox' = Tail(inbox)
    /\ LET m == Head(inbox) IN
         CASE m.type = "LOAD_MODEL" -> LoadModel
           [] m.type = "RECOGNIZE" -> Recognize(m)
    /\ UNCHANGED <<serviceVars, loadsPosted, appState>>

\* lines 19-23 and 27-29: InferenceSession.create fulfilled
CreateSucceedsWithoutStoring ==
    /\ creating > 0
    /\ creating' = creating - 1
    /\ created' = created + 1
    /\ outbox' = Append(outbox, FromWorker("MODEL_LOADED", "true", NoId))
    /\ isLoading' = FALSE
    /\ last' = "create:fulfilled"
    /\ UNCHANGED <<serviceVars, inbox, session, running, loadsPosted, answers,
                   appState>>
CreateSucceeds ==
    /\ creating > 0
    /\ creating' = creating - 1
    /\ created' = created + 1
    /\ session' = created + 1
    /\ outbox' = Append(outbox, FromWorker("MODEL_LOADED", "true", NoId))
    /\ isLoading' = FALSE
    /\ last' = "create:fulfilled"
    /\ UNCHANGED <<serviceVars, inbox, running, loadsPosted, answers, appState>>

\* lines 24-29: InferenceSession.create rejected with e
CreateFailsKeepsLoading ==
    /\ creating > 0
    /\ creating' = creating - 1
    /\ outbox' = Append(outbox, FromWorker("ERROR", "load failed", NoId))
    /\ last' = "create:rejected"
    /\ UNCHANGED <<serviceVars, inbox, session, isLoading, created, running,
                   loadsPosted, answers, appState>>
CreateFails ==
    /\ creating > 0
    /\ creating' = creating - 1
    /\ outbox' = Append(outbox, FromWorker("ERROR", "load failed", NoId))
    /\ isLoading' = FALSE
    /\ last' = "create:rejected"
    /\ UNCHANGED <<serviceVars, inbox, session, created, running, loadsPosted,
                   answers, appState>>

\* runInference lines 123-129 and listener line 46: session.run fulfilled
RunSucceeds(id) ==
    /\ id \in running
    /\ running' = running \ {id}
    /\ \E e \in Embeddings :
          outbox' = Append(outbox, FromWorker("RESULT", e, id))
    /\ answers' = [answers EXCEPT ![id] = @ + 1]
    /\ last' = "run:fulfilled"
    /\ UNCHANGED <<serviceVars, inbox, session, isLoading, creating, created,
                   loadsPosted, appState>>

\* listener lines 47-50: session.run rejected with e
RunFails(id) ==
    /\ id \in running
    /\ running' = running \ {id}
    /\ outbox' = Append(outbox, FromWorker("ERROR", "inference failed", id))
    /\ answers' = [answers EXCEPT ![id] = @ + 1]
    /\ last' = "run:rejected"
    /\ UNCHANGED <<serviceVars, inbox, session, isLoading, creating, created,
                   loadsPosted, appState>>

\* ---------------------------------------------------- exact arithmetic
Abs(n) == IF n < 0 THEN -n ELSE n

RECURSIVE GCD(_, _)
GCD(a, b) == IF b = 0 THEN a ELSE GCD(b, a % b)

\* lowest terms, positive denominator
Reduce(r) ==
    LET n == IF r[2] < 0 THEN -r[1] ELSE r[1]
        d == Abs(r[2])
        g == GCD(Abs(n), d)
    IN  Rat(n \div g, d \div g)

RAdd(a, b) == Reduce(Rat(a[1] * b[2] + b[1] * a[2], a[2] * b[2]))
RSub(a, b) == Reduce(Rat(a[1] * b[2] - b[1] * a[2], a[2] * b[2]))
RMul(a, b) == Reduce(Rat(a[1] * b[1], a[2] * b[2]))
RDiv(a, b) == Reduce(Rat(a[1] * b[2], a[2] * b[1]))

\* a > b, compared by integer parts and then by the reciprocals of the
\* fractional parts, so that no product leaves the integer range
RECURSIVE RGreater(_, _)
RGreater(a, b) ==
    LET qa == a[1] \div a[2]
        qb == b[1] \div b[2]
        ra == a[1] % a[2]
        rb == b[1] % b[2]
    IN  IF qa # qb THEN qa > qb
        ELSE IF ra = 0 THEN FALSE
        ELSE IF rb = 0 THEN TRUE
        ELSE RGreater(Rat(b[2], rb), Rat(a[2], ra))

REq(a, b) == Reduce(a) = Reduce(b)
RGeq(a, b) == ~RGreater(b, a)

\* Math.sqrt on the perfect squares the embeddings below produce
Sqrt(n) == CHOOSE r \in 0..n : r * r = n

\* --------------------------------------------------------------- gallery
\* number of entries the gallery can hold in a run
MaxGallery == 2
\* number of clock ticks in a run (Date.now() has millisecond resolution)
MaxClock == 1

\* the embeddings offered to the gallery operations: integer vectors of
\* length 5, and the zero vector
Vecs == {<<3, 4>>, <<5, 0>>, <<3, -4>>, <<0, 0>>}
\* the names faces are enrolled under
Names == {"ann", "bob"}

\* cosineSimilarity, lines 123-133
RECURSIVE SumTo(_, _, _)
SumTo(a, b, i) == IF i = 0 THEN 0 ELSE SumTo(a, b, i - 1) + a[i] * b[i]

cosineSimilarityNoSqrt(a, b) ==
    LET dot == SumTo(a, b, Len(a))
        magA == SumTo(a, a, Len(a))
        magB == SumTo(b, b, Len(a))
    IN  RDiv(Rat(dot, 1), RAdd(Rat(magA * magB, 1), Rat(1, 1000000)))
cosineSimilarity(a, b) ==
    LET dot == SumTo(a, b, Len(a))
        magA == SumTo(a, a, Len(a))
        magB == SumTo(b, b, Len(a))
    IN  RDiv(Rat(dot, 1),
             RAdd(Rat(Sqrt(magA) * Sqrt(magB), 1), Rat(1, 1000000)))

\* matchFace, lines 100-103: an entry replaces the best so far
ScanStepLastWins(best, score, name) ==
    IF RGeq(score, best.score) THEN [score |-> score, name |-> name] ELSE best
ScanStep(best, score, name) ==
    IF RGreater(score, best.score) THEN [score |-> score, name |-> name] ELSE best

\* matchFace, lines 97-106: the scan from entry i on, with the best so far
RECURSIVE Scan(_, _, _, _)
Scan(faces, embedding, i, best) ==
    IF i > Len(faces) THEN best
    ELSE Scan(faces, embedding, i + 1,
              ScanStep(best, cosineSimilarity(embedding, faces[i].embedding),
                       faces[i].name))

\* matchFace, lines 108-114: the threshold and the remap
ThresholdInclusive(score, name) ==
    IF RGeq(score, Rat(2, 5))
    THEN [name |-> name,
          score |-> RAdd(Rat(4, 5),
                         RMul(RDiv(RSub(score, Rat(2, 5)), Rat(3, 5)), Rat(1, 5)))]
    ELSE [name |-> "Unknown", score |-> score]
ThresholdNoRemap(score, name) ==
    IF RGreater(score, Rat(2, 5))
    THEN [name |-> name, score |-> score]
    ELSE [name |-> "Unknown", score |-> score]
Threshold(score, name) ==
    IF RGreater(score, Rat(2, 5))
    THEN [name |-> name,
          score |-> RAdd(Rat(4, 5),
                         RMul(RDiv(RSub(score, Rat(2, 5)), Rat(3, 5)), Rat(1, 5)))]
    ELSE [name |-> "Unknown", score |-> score]

\* matchFace, lines 93-115
MatchFaceNoEmptyCheck(faces, embedding) ==
    LET best == Scan(faces, embedding, 1, [score |-> Rat(-1, 1), name |-> "Unknown"])
    IN  Threshold(best.score, best.name)
MatchFace(faces, embedding) ==
    IF Len(faces) = 0 THEN [name |-> "Unknown", score |-> Rat(0, 1)]
    ELSE LET best == Scan(faces, embedding, 1,
                          [score |-> Rat(-1, 1), name |-> "Unknown"])
         IN  Threshold(best.score, best.name)

\* addKnownFace, lines 80-91 (saveKnownFaces is empty)
AddKnownFace(faces, name, embedding, t) ==
    Append(faces, [name |-> name, embedding |-> embedding, timestamp |-> t])

\* deleteKnownFace, lines 117-121
DeleteKnownFace(faces, face) ==
    SelectSeq(faces, LAMBDA f : f.timestamp # face.timestamp)

\* ---- the gallery operations as calls on the service
\* the argument and the return value of the matchFace call of this step, none
\* when the step is another operation
Returned(q, r) ==
    /\ query' = q
    /\ matchResult' = r

addKnownFace(name, embedding) ==
    /\ Len(knownFaces) < MaxGallery
    /\ knownFaces' = AddKnownFace(knownFaces, name, embedding, now)
    /\ last' = "addKnownFace"
    /\ Returned(NoQuery, NoResult)
    /\ UNCHANGED <<useBGR, now, remapVars, frameVars, brokerState,
                   kernelVars>>

deleteKnownFace(i) ==
    /\ i \in 1..Len(knownFaces)
    /\ knownFaces' = DeleteKnownFace(knownFaces, knownFaces[i])
    /\ last' = "deleteKnownFace"
    /\ Returned(NoQuery, NoResult)
    /\ UNCHANGED <<useBGR, now, remapVars, frameVars, brokerState,
                   kernelVars>>

matchFace(embedding) ==
    /\ Returned(embedding, MatchFace(knownFaces, embedding))
    /\ last' = "matchFace"
    /\ UNCHANGED <<knownFaces, useBGR, now, remapVars, frameVars, brokerState,
                   kernelVars>>

\* Date.now() advances
Tick ==
    /\ now < MaxClock
    /\ now' = now + 1
    /\ last' = "tick"
    /\ Returned(NoQuery, NoResult)
    /\ UNCHANGED <<knownFaces, useBGR, remapVars, frameVars, brokerState,
                   kernelVars>>

\* the broker and the worker are not part of the specifications below
BrokerIdle ==
    /\ worker = TRUE
    /\ isModelLoaded = FALSE
    /\ pendingRequests = <<>>
    /\ calls = <<>>
    /\ usedIds = {}
    /\ detached = {}
    /\ handlerThrew = FALSE
    /\ inbox = <<>>
    /\ outbox = <<>>
    /\ session = NoSession
    /\ isLoading = FALSE
    /\ creating = 0
    /\ created = 0
    /\ running = {}
    /\ loadsPosted = 0
    /\ answers = [i \in Ids |-> 0]

\* the service after construction: loadKnownFaces found nothing stored
GalleryInit ==
    /\ BrokerIdle /\ GalleryIdle /\ RemapIdle /\ FrameIdle /\ KernelIdle
    /\ last = "init"

GalleryNext ==
    \/ \E n \in Names, e \in Vecs : addKnownFace(n, e)
    \/ \E i \in 1..MaxGallery : deleteKnownFace(i)
    \/ \E e \in Vecs : matchFace(e)
    \/ Tick

GallerySpec == GalleryInit /\ [][GalleryNext]_vars

\* ---- the threshold step of matchFace on its own
\* the scores offered to the threshold step, in units of 1/100000
RawScores ==
    {Rat(k, 100000) : k \in (39990..40010) \cup {-100000, 0, 50000, 80000, 99999, 100000}}

RemapInit ==
    /\ BrokerIdle /\ GalleryIdle /\ FrameIdle /\ KernelIdle
    /\ bestScore \in RawScores
    /\ bestMatch \in Names \cup {"Unknown"}
    /\ last = "init"

\* lines 108-114 applied to bestScore and bestMatch
ApplyThreshold ==
    /\ last = "init"
    /\ matchResult' = Threshold(bestScore, bestMatch)
    /\ last' = "threshold"
    /\ UNCHANGED <<knownFaces, useBGR, now, query, remapVars, frameVars,
                   brokerState, kernelVars>>

RemapNext == ApplyThreshold

RemapSpec == RemapInit /\ [][RemapNext]_vars

\* ------------------------------------------------------- the application
\* number of processFrame chains (loadedmetadata events) in a run
MaxLoops == 1
\* number of faces the detector reports in one frame
MaxFaces == 1
\* number of triggerSnapshot calls in a run
MaxSnapshots == 1
\* number of files uploaded in a run
MaxUploads == 1

\* the embedding the network computes for the face in front of the camera:
\* it depends on the channel order the worker was told to use
EmbeddingOf(flag) == IF flag THEN <<4, 3>> ELSE <<3, 4>>
\* the channel order an embedding was computed with
ComputedUnder(e) == e = <<4, 3>>

\* Number.toFixed(0) of score * 100: the nearest integer, halves away from 0
PercentAbs(s) ==
    CHOOSE k \in 0..100 :
        /\ RGeq(s, Rat(2 * k - 1, 200))
        /\ RGreater(Rat(2 * k + 1, 200), s)
Percent(s) ==
    IF RGreater(Rat(0, 1), s) THEN 0 - PercentAbs(RSub(Rat(0, 1), s))
    ELSE PercentAbs(s)
\* the text of currentMatch, `${match.name} (${pct}%)`, as <<name, pct>>
Display(match) == <<match.name, Percent(match.score)>>

\* the detections of one frame: per face, whether every landmark the
\* alignment reads (33, 133, 362, 263, 4, 61, 291) is present
Detections ==
    UNION {[1..n -> BOOLEAN] : n \in 0..MaxFaces}

\* a processFrame chain: its position, the faces left in the for loop (the
\* current one first), the ImageData it holds (0 for none), and the flag and
\* result of its getEmbedding call; "armed" is the chain a loadedmetadata
\* event will start
NewLoop ==
    [pc |-> "armed", faces |-> <<>>, img |-> 0, flag |-> FALSE,
     embedding |-> <<>>]

\* lines 203-221 for the faces fs left in the loop, line 261 when none is
\* left: landmark extraction and estimateAffineTransform stand before the try
Align(c, fs) ==
    [NewLoop EXCEPT !.faces = fs,
                    !.pc = IF fs = <<>> THEN "call"
                           ELSE IF Head(fs) THEN "warp" ELSE "dead"]

\* the ImageData getImageData returns (document lines 230 and 351): an
\* object no invocation holds
ReusedImage(ls, us) == 1
FreshImage(ls, us) ==
    CHOOSE i \in 1..(Len(ls) + Len(us)) :
        /\ \A k \in 1..Len(ls) : ls[k].img # i
        /\ \A u \in 1..Len(us) : us[u].img # i
        /\ \A j \in 1..(i - 1) :
              \/ \E k \in 1..Len(ls) : ls[k].img = j
              \/ \E u \in 1..Len(us) : us[u].img = j

\* startApp, lines 137-148, after startCamera resolved: the stream is given
\* to the video element, whose loadedmetadata event will call processFrame;
\* cap bounds the chains of a run
StartApp(cap) ==
    /\ isCameraActive' = TRUE
    /\ loops' = IF \/ Len(loops) >= cap
                   \/ \E k \in 1..Len(loops) : loops[k].pc = "armed"
                THEN loops
                ELSE Append(loops, NewLoop)
    /\ last' = "startApp"
    /\ Returned(NoQuery, NoResult)
    /\ UNCHANGED <<knownFaces, useBGR, now, captureNextFrame, snapshots,
                   captures, uploads, currentMatch, remapVars, brokerState,
                   kernelVars>>

startApp == StartApp(MaxLoops)

\* video.onloadedmetadata, lines 145-147: calls processFrame
onloadedmetadata(k) ==
    /\ k \in 1..Len(loops)
    /\ loops[k].pc = "armed"
    /\ loops' = [loops EXCEPT ![k].pc = "call"]
    /\ last' = "onloadedmetadata"
    /\ Returned(NoQuery, NoResult)
    /\ UNCHANGED <<knownFaces, useBGR, now, isCameraActive, captureNextFrame,
                   snapshots, captures, uploads, currentMatch, remapVars,
                   brokerState, kernelVars>>

\* processFrame, lines 150-179: up to the await of detect
processFrame(k) ==
    /\ k \in 1..Len(loops)
    /\ loops[k].pc = "call"
    /\ \E ready \in BOOLEAN :
          loops' = [loops EXCEPT ![k].pc =
                       IF ~isCameraActive THEN "returned"
                       ELSE IF ready THEN "detect" ELSE "call"]
    /\ last' = "processFrame"
    /\ Returned(NoQuery, NoResult)
    /\ UNCHANGED <<knownFaces, useBGR, now, isCameraActive, captureNextFrame,
                   snapshots, captures, uploads, currentMatch, remapVars, brokerState,
                                  kernelVars>>

\* lines 179-221: detect resolves (it never rejects), the first face is aligned
DetectSettles(k) ==
    /\ k \in 1..Len(loops)
    /\ loops[k].pc = "detect"
    /\ \E fs \in Detections : loops' = [loops EXCEPT ![k] = Align(@, fs)]
    /\ last' = "detect"
    /\ Returned(NoQuery, NoResult)
    /\ UNCHANGED <<knownFaces, useBGR, now, isCameraActive, captureNextFrame,
                   snapshots, captures, uploads, currentMatch, remapVars, brokerState,
                                  kernelVars>>

\* lines 225-233: warpFace resolves and getEmbedding is called, which reads
\* useBGR (service line 75)
WarpResolves(k) ==
    /\ k \in 1..Len(loops)
    /\ loops[k].pc = "warp"
    /\ loops' = [loops EXCEPT ![k].pc = "embed", ![k].flag = useBGR,
                              ![k].img = FreshImage(loops, uploads)]
    /\ last' = "getEmbedding"
    /\ Returned(NoQuery, NoResult)
    /\ UNCHANGED <<knownFaces, useBGR, now, isCameraActive, captureNextFrame,
                   snapshots, captures, uploads, currentMatch, remapVars, brokerState,
                                  kernelVars>>

\* lines 255-257: an awaited call of the try block rejects, the catch logs it
\* and the for loop goes on with the next face
FrameCatch(k) ==
    /\ k \in 1..Len(loops)
    /\ loops[k].pc \in {"warp", "embed", "blob"}
    /\ loops' = [loops EXCEPT ![k] = Align(@, Tail(@.faces))]
    /\ last' = "catch"
    /\ Returned(NoQuery, NoResult)
    /\ UNCHANGED <<knownFaces, useBGR, now, isCameraActive, captureNextFrame,
                   snapshots, captures, uploads, currentMatch, remapVars, brokerState,
                                  kernelVars>>

\* lines 245-253 for an embedding against the gallery faces
MatchAndShow(faces, e) ==
    /\ Returned(e, MatchFace(faces, e))
    /\ currentMatch' = Display(MatchFace(faces, e))

\* lines 233-253: getEmbedding resolves; with captureNextFrame set the flag
\* is cleared and convertToBlob awaited, otherwise the face is matched
EmbedResolvesKeepsFlag(k) ==
    /\ k \in 1..Len(loops)
    /\ loops[k].pc = "embed"
    /\ LET e == EmbeddingOf(loops[k].flag) IN
       IF captureNextFrame
       THEN /\ captureNextFrame' = captureNextFrame
            /\ loops' = [loops EXCEPT ![k].pc = "blob", ![k].embedding = e]
            /\ Returned(NoQuery, NoResult)
            /\ last' = "convertToBlob"
            /\ UNCHANGED currentMatch
       ELSE /\ MatchAndShow(knownFaces, e)
            /\ loops' = [loops EXCEPT ![k] = Align(@, Tail(@.faces))]
            /\ last' = "matchFace"
            /\ UNCHANGED captureNextFrame
    /\ UNCHANGED <<knownFaces, useBGR, now, isCameraActive, snapshots, captures,
                   uploads, remapVars, brokerState, kernelVars>>
EmbedResolves(k) ==
    /\ k \in 1..Len(loops)
    /\ loops[k].pc = "embed"
    /\ LET e == EmbeddingOf(loops[k].flag) IN
       IF captureNextFrame
       THEN /\ captureNextFrame' = FALSE
            /\ loops' = [loops EXCEPT ![k].pc = "blob", ![k].embedding = e]
            /\ Returned(NoQuery, NoResult)
            /\ last' = "convertToBlob"
            /\ UNCHANGED currentMatch
       ELSE /\ MatchAndShow(knownFaces, e)
            /\ loops' = [loops EXCEPT ![k] = Align(@, Tail(@.faces))]
            /\ last' = "matchFace"
            /\ UNCHANGED captureNextFrame
    /\ UNCHANGED <<knownFaces, useBGR, now, isCameraActive, snapshots, captures,
                   uploads, remapVars, brokerState, kernelVars>>

\* lines 237-253: convertToBlob resolves, the face is enrolled and matched
BlobResolves(k) ==
    /\ k \in 1..Len(loops)
    /\ loops[k].pc = "blob"
    /\ LET e == loops[k].embedding
           faces == AddKnownFace(knownFaces, "Live", e, now)
       IN  /\ knownFaces' = faces
           /\ MatchAndShow(faces, e)
    /\ loops' = [loops EXCEPT ![k] = Align(@, Tail(@.faces))]
    /\ captures' = captures + 1
    /\ last' = "snapshot"
    /\ UNCHANGED <<useBGR, now, isCameraActive, captureNextFrame, snapshots,
                   uploads, remapVars, brokerState, kernelVars>>

\* a processFile invocation: its position, the detection result it holds
\* ("none", "ok" or "bad" landmarks), and the flag and result of getEmbedding
NewUpload ==
    [pc |-> "load", face |-> "none", img |-> 0, flag |-> FALSE,
     embedding |-> <<>>]

\* handleUpload, lines 304-313, for one file: processFile up to its first await
handleUpload ==
    /\ Len(uploads) < MaxUploads
    /\ uploads' = Append(uploads, NewUpload)
    /\ last' = "handleUpload"
    /\ Returned(NoQuery, NoResult)
    /\ UNCHANGED <<knownFaces, useBGR, now, isCameraActive, captureNextFrame,
                   snapshots, captures, loops, currentMatch, remapVars, brokerState,
                                  kernelVars>>

\* processFile has no try: a rejected await rejects processFile
FileRejects(u) ==
    /\ u \in 1..Len(uploads)
    /\ uploads[u].pc \in {"load", "detectImage", "switch", "warp", "embed", "blob"}
    /\ uploads' = [uploads EXCEPT ![u] = [NewUpload EXCEPT !.pc = "rejected"]]
    /\ last' = "fileRejected"
    /\ Returned(NoQuery, NoResult)
    /\ UNCHANGED <<knownFaces, useBGR, now, isCameraActive, captureNextFrame,
                   snapshots, captures, loops, currentMatch, remapVars, brokerState,
                                  kernelVars>>

\* lines 320-325: the image loads, detectImage is called
FileLoads(u) ==
    /\ u \in 1..Len(uploads)
    /\ uploads[u].pc = "load"
    /\ uploads' = [uploads EXCEPT ![u].pc = "detectImage"]
    /\ last' = "detectImage"
    /\ Returned(NoQuery, NoResult)
    /\ UNCHANGED <<knownFaces, useBGR, now, isCameraActive, captureNextFrame,
                   snapshots, captures, loops, currentMatch, remapVars, brokerState,
                                  kernelVars>>

\* lines 325-326: detectImage resolves, switchToVideoMode is called
FileDetected(u) ==
    /\ u \in 1..Len(uploads)
    /\ uploads[u].pc = "detectImage"
    /\ \E f \in {"none", "ok", "bad"} :
          uploads' = [uploads EXCEPT ![u].pc = "switch", ![u].face = f]
    /\ last' = "switchToVideoMode"
    /\ Returned(NoQuery, NoResult)
    /\ UNCHANGED <<knownFaces, useBGR, now, isCameraActive, captureNextFrame,
                   snapshots, captures, loops, currentMatch, remapVars, brokerState,
                                  kernelVars>>

\* lines 326-346: switchToVideoMode resolves; no face: the alert; a face: the
\* alignment (which throws on a missing landmark) and the call of warpFace
FileAligned(u) ==
    /\ u \in 1..Len(uploads)
    /\ uploads[u].pc = "switch"
    /\ uploads' = [uploads EXCEPT ![u] =
                      [NewUpload EXCEPT !.pc =
                          CASE uploads[u].face = "none" -> "noFace"
                            [] uploads[u].face = "bad" -> "rejected"
                            [] OTHER -> "warp"]]
    /\ last' = "fileAligned"
    /\ Returned(NoQuery, NoResult)
    /\ UNCHANGED <<knownFaces, useBGR, now, isCameraActive, captureNextFrame,
                   snapshots, captures, loops, currentMatch, remapVars, brokerState,
                                  kernelVars>>

\* lines 346-353: warpFace resolves, getEmbedding is called and reads useBGR
FileWarped(u) ==
    /\ u \in 1..Len(uploads)
    /\ uploads[u].pc = "warp"
    /\ uploads' = [uploads EXCEPT ![u].pc = "embed", ![u].flag = useBGR,
                                  ![u].img = FreshImage(loops, uploads)]
    /\ last' = "fileGetEmbedding"
    /\ Returned(NoQuery, NoResult)
    /\ UNCHANGED <<knownFaces, useBGR, now, isCameraActive, captureNextFrame,
                   snapshots, captures, loops, currentMatch, remapVars, brokerState,
                                  kernelVars>>

\* lines 353-355: getEmbedding resolves, convertToBlob is called
FileEmbedded(u) ==
    /\ u \in 1..Len(uploads)
    /\ uploads[u].pc = "embed"
    /\ uploads' = [uploads EXCEPT ![u].pc = "blob",
                                  ![u].embedding = EmbeddingOf(uploads[u].flag)]
    /\ last' = "fileConvertToBlob"
    /\ Returned(NoQuery, NoResult)
    /\ UNCHANGED <<knownFaces, useBGR, now, isCameraActive, captureNextFrame,
                   snapshots, captures, loops, currentMatch, remapVars, brokerState,
                                  kernelVars>>

\* lines 355-358: convertToBlob resolves, the face is enrolled
FileEnrolled(u) ==
    /\ u \in 1..Len(uploads)
    /\ uploads[u].pc = "blob"
    /\ knownFaces' = AddKnownFace(knownFaces, "file", uploads[u].embedding, now)
    /\ uploads' = [uploads EXCEPT ![u] = [NewUpload EXCEPT !.pc = "enrolled"]]
    /\ last' = "fileEnrolled"
    /\ Returned(NoQuery, NoResult)
    /\ UNCHANGED <<useBGR, now, isCameraActive, captureNextFrame, snapshots, captures,
                   loops, currentMatch, remapVars, brokerState, kernelVars>>

\* deleteFace, lines 364-368
deleteFace(i) ==
    /\ i \in 1..Len(knownFaces)
    /\ \E confirm \in BOOLEAN :
          IF confirm THEN deleteKnownFace(i)
          ELSE /\ last' = "deleteFace"
               /\ Returned(NoQuery, NoResult)
               /\ UNCHANGED <<knownFaces, useBGR, now, remapVars, frameVars,
                              brokerState, kernelVars>>

\* triggerSnapshot, lines 370-372
triggerSnapshot ==
    /\ snapshots < MaxSnapshots
    /\ snapshots' = snapshots + 1
    /\ captureNextFrame' = TRUE
    /\ last' = "triggerSnapshot"
    /\ Returned(NoQuery, NoResult)
    /\ UNCHANGED <<knownFaces, useBGR, now, isCameraActive, captures, loops,
                   uploads, currentMatch, remapVars, brokerState, kernelVars>>

\* toggleColorMode, lines 374-378
toggleColorModeKeepsGallery ==
    /\ useBGR' = ~useBGR
    /\ currentMatch' = <<"Unknown">>
    /\ last' = "toggleColorMode"
    /\ Returned(NoQuery, NoResult)
    /\ UNCHANGED <<knownFaces, now, isCameraActive, captureNextFrame, snapshots, captures,
                   loops, uploads, remapVars, brokerState, kernelVars>>
toggleColorMode ==
    /\ useBGR' = ~useBGR
    /\ knownFaces' = <<>>
    /\ currentMatch' = <<"Unknown">>
    /\ last' = "toggleColorMode"
    /\ Returned(NoQuery, NoResult)
    /\ UNCHANGED <<now, isCameraActive, captureNextFrame, snapshots, captures, loops,
                   uploads, remapVars, brokerState, kernelVars>>

AppInit ==
    /\ BrokerIdle /\ GalleryIdle /\ RemapIdle /\ FrameIdle /\ KernelIdle
    /\ last = "init"

AppNext ==
    \/ startApp
    \/ \E k \in 1..MaxLoops :
          \/ onloadedmetadata(k)
          \/ processFrame(k)
          \/ DetectSettles(k)
          \/ WarpResolves(k)
          \/ EmbedResolves(k)
          \/ BlobResolves(k)
          \/ FrameCatch(k)
    \/ handleUpload
    \/ \E u \in 1..MaxUploads :
          \/ FileLoads(u)
          \/ FileDetected(u)
          \/ FileAligned(u)
          \/ FileWarped(u)
          \/ FileEmbedded(u)
          \/ FileEnrolled(u)
          \/ FileRejects(u)
    \/ \E i \in 1..MaxGallery : deleteFace(i)
    \/ triggerSnapshot
    \/ toggleColorMode
    \/ Tick

AppSpec == AppInit /\ [][AppNext]_vars


\* ---- the frame loop and the uploads without the gallery controls
\* number of processFrame chains in a run of LoopSpec
MaxChains == 2

LoopNext ==
    \/ StartApp(MaxChains)
    \/ \E k \in 1..MaxChains :
          \/ onloadedmetadata(k)
          \/ processFrame(k)
          \/ DetectSettles(k)
          \/ WarpResolves(k)
          \/ EmbedResolves(k)
          \/ BlobResolves(k)
          \/ FrameCatch(k)
    \/ handleUpload
    \/ \E u \in 1..MaxUploads :
          \/ FileLoads(u)
          \/ FileDetected(u)
          \/ FileAligned(u)
          \/ FileWarped(u)
          \/ FileEmbedded(u)
          \/ FileEnrolled(u)
          \/ FileRejects(u)
    \/ triggerSnapshot

LoopSpec == AppInit /\ [][LoopNext]_vars

\* ------------------------------------------------------- large numbers
\* the numbers of estimateAffineTransform exceed 32 bits: a magnitude is its
\* sequence of base-10000 digits, least significant first, <<>> for zero.
\* Every operator takes the value of each argument once, by binding it
\* (a \in {x}), so that no argument expression is evaluated again and again.
Base == 10000

\* the magnitude of a natural number below 2^31
RECURSIVE MagOf(_)
MagOf(n) == IF n = 0 THEN <<>> ELSE <<n % Base>> \o MagOf(n \div Base)

\* -1, 0 or 1 as x is below, equal to or above y
MagCmp(x, y) ==
    LET Cmp(a, b) ==
            LET RECURSIVE From(_)
                From(i) == IF i = 0 THEN 0
                           ELSE IF a[i] < b[i] THEN -1
                           ELSE IF a[i] > b[i] THEN 1
                           ELSE From(i - 1)
            IN  IF Len(a) < Len(b) THEN -1
                ELSE IF Len(a) > Len(b) THEN 1
                ELSE From(Len(a))
    IN  CHOOSE r \in {Cmp(a, b) : a \in {x}, b \in {y}} : TRUE

MagAdd(x, y) ==
    LET Sum(a, b) ==
            LET Digit(m, i) == IF i <= Len(m) THEN m[i] ELSE 0
                RECURSIVE From(_, _)
                From(i, carry) ==
                    IF i > Len(a) /\ i > Len(b)
                    THEN IF carry = 0 THEN <<>> ELSE <<carry>>
                    ELSE <<(Digit(a, i) + Digit(b, i) + carry) % Base>>
                         \o From(i + 1,
                                 IF Digit(a, i) + Digit(b, i) + carry >= Base
                                 THEN 1 ELSE 0)
            IN  From(1, 0)
    IN  CHOOSE r \in {Sum(a, b) : a \in {x}, b \in {y}} : TRUE

\* x - y for x >= y
MagSub(x, y) ==
    LET Diff(a, b) ==
            LET Digit(m, i) == IF i <= Len(m) THEN m[i] ELSE 0
                RECURSIVE From(_, _)
                From(i, borrow) ==
                    IF i > Len(a) THEN <<>>
                    ELSE IF a[i] - Digit(b, i) - borrow < 0
                         THEN <<a[i] - Digit(b, i) - borrow + Base>>
                              \o From(i + 1, 1)
                         ELSE <<a[i] - Digit(b, i) - borrow>>
                              \o From(i + 1, 0)
            IN  From(1, 0)
        \* without the leading zeros
        RECURSIVE Norm(_)
        Norm(m) == IF m = <<>> THEN <<>>
                   ELSE IF m[Len(m)] = 0 THEN Norm(SubSeq(m, 1, Len(m) - 1))
                   ELSE m
    IN  CHOOSE r \in {Norm(d) : d \in {Diff(a, b) : a \in {x}, b \in {y}}} : TRUE

MagMul(x, y) ==
    LET \* a times the digit k, from digit i on
        RECURSIVE Scale(_, _, _, _)
        Scale(a, k, i, carry) ==
            IF i > Len(a) THEN MagOf(carry)
            ELSE <<(a[i] * k + carry) % Base>>
                 \o Scale(a, k, i + 1, (a[i] * k + carry) \div Base)
        \* a times the digits of b from digit j on
        RECURSIVE Rows(_, _, _)
        Rows(a, b, j) ==
            IF j > Len(b) THEN <<>>
            ELSE CHOOSE r \in
                    {MagAdd(row, IF rest = <<>> THEN <<>> ELSE <<0>> \o rest) :
                        row \in {IF b[j] = 0 THEN <<>> ELSE Scale(a, b[j], 1, 0)},
                        rest \in {Rows(a, b, j + 1)}} : TRUE
    IN  CHOOSE r \in {IF a = <<>> THEN <<>> ELSE Rows(a, b, 1) :
                        a \in {x}, b \in {y}} : TRUE

\* the integer square root of x, digit by digit from the most significant
\* one: each digit is the largest that keeps the square at or below x
MagSqrt(x) ==
    LET RECURSIVE Norm(_)
        Norm(m) == IF m = <<>> THEN <<>>
                   ELSE IF m[Len(m)] = 0 THEN Norm(SubSeq(m, 1, Len(m) - 1))
                   ELSE m
        Set(r, k, d) == [i \in 1..Len(r) |-> IF i = k THEN d ELSE r[i]]
        Fits(v, r) ==
            \E m \in {Norm(r)} : MagCmp(MagMul(m, m), v) <= 0
        \* the largest digit d at position k, lo <= d < hi, that fits
        RECURSIVE Digit(_, _, _, _, _)
        Digit(v, r, k, lo, hi) ==
            IF lo + 1 >= hi THEN lo
            ELSE CHOOSE d \in
                    {IF Fits(v, Set(r, k, mid))
                     THEN Digit(v, r, k, mid, hi)
                     ELSE Digit(v, r, k, lo, mid) :
                        mid \in {(lo + hi) \div 2}} : TRUE
        RECURSIVE From(_, _, _)
        From(v, r, k) ==
            IF k = 0 THEN Norm(r)
            ELSE CHOOSE s \in
                    {From(v, r2, k - 1) :
                        r2 \in {Set(r, k, d) :
                                    d \in {Digit(v, r, k, 0, Base)}}} : TRUE
    IN  CHOOSE s \in
            {From(v, [i \in 1..((Len(v) + 1) \div 2) |-> 0],
                  (Len(v) + 1) \div 2) : v \in {x}} : TRUE

\* an integer: <<sign, magnitude>>, sign -1, 0 or 1
Big(n) == IF n = 0 THEN <<0, <<>>>>
          ELSE IF n < 0 THEN <<-1, MagOf(0 - n)>> ELSE <<1, MagOf(n)>>
BigNeg(x) == CHOOSE r \in {<<0 - a[1], a[2]>> : a \in {x}} : TRUE
BigAdd(x, y) ==
    LET Sum(a, b) ==
            IF a[1] = 0 THEN b
            ELSE IF b[1] = 0 THEN a
            ELSE IF a[1] = b[1] THEN <<a[1], MagAdd(a[2], b[2])>>
            ELSE CHOOSE r \in
                    {IF c = 0 THEN <<0, <<>>>>
                     ELSE IF c > 0 THEN <<a[1], MagSub(a[2], b[2])>>
                     ELSE <<b[1], MagSub(b[2], a[2])>> :
                        c \in {MagCmp(a[2], b[2])}} : TRUE
    IN  CHOOSE r \in {Sum(a, b) : a \in {x}, b \in {y}} : TRUE
BigSub(x, y) == BigAdd(x, BigNeg(y))
BigMul(x, y) ==
    CHOOSE r \in {<<a[1] * b[1], MagMul(a[2], b[2])>> :
                    a \in {x}, b \in {y}} : TRUE

\* a JavaScript number: <<numerator, denominator>> of integers, denominator
\* not negative; 0/0 is NaN (exact arithmetic, rounding is not modelled)
Num(n) == <<Big(n), Big(1)>>
IsNaN(x) == x[2][1] = 0
NumAdd(x, y) ==
    CHOOSE r \in
        {IF a[2] = b[2] THEN <<BigAdd(a[1], b[1]), a[2]>>
         ELSE <<BigAdd(BigMul(a[1], b[2]), BigMul(b[1], a[2])),
                BigMul(a[2], b[2])>> : a \in {x}, b \in {y}} : TRUE
NumNeg(x) == CHOOSE r \in {<<BigNeg(a[1]), a[2]>> : a \in {x}} : TRUE
NumSub(x, y) == NumAdd(x, NumNeg(y))
NumMul(x, y) ==
    CHOOSE r \in {<<BigMul(a[1], b[1]), BigMul(a[2], b[2])>> :
                    a \in {x}, b \in {y}} : TRUE
NumDiv(x, y) ==
    CHOOSE r \in
        {IF d[1] < 0 THEN <<BigNeg(n), BigNeg(d)>> ELSE <<n, d>> :
            n \in {BigMul(a[1], b[2]) : a \in {x}, b \in {y}},
            d \in {BigMul(a[2], b[1]) : a \in {x}, b \in {y}}} : TRUE
\* Math.sqrt of a number that is not negative: exact on the squares the
\* inputs below produce
NumSqrt(x) ==
    LET Root(m) == IF m = <<>> THEN <<0, <<>>>> ELSE <<1, MagSqrt(m)>>
    IN  CHOOSE r \in {<<Root(a[1][2]), Root(a[2][2])>> : a \in {x}} : TRUE
\* ===: NaN equals nothing
NumEq(x, y) ==
    \E a \in {x}, b \in {y} :
        /\ ~IsNaN(a)
        /\ ~IsNaN(b)
        /\ BigMul(a[1], b[2]) = BigMul(b[1], a[2])

\* ------------------------------------------------ estimateAffineTransform
\* REFERENCE_LANDMARKS, lines 2-8, in units of 1/10000 pixel
REFERENCE_LANDMARKS ==
    << <<382946, 516963>>, <<735318, 515014>>, <<560252, 717366>>,
       <<415493, 923655>>, <<707299, 922041>> >>

\* lines 25-27: the number of points is not 5
LengthCheckAtLeast(points) == Len(points) < 5
LengthCheck(points) == Len(points) # 5

\* estimateAffineTransform, lines 21-85: the points are records [x, y] in
\* units of 1/10000 pixel; the result is thrown or a matrix
estimateAffineTransform(points) ==
    IF LengthCheck(points)
    THEN [threw |-> TRUE, matrix |-> <<>>]
    ELSE
    LET \* the sum of Term(i) for i = 1..n (the for loops of lines 31, 50)
        RECURSIVE SumOver(_, _)
        SumOver(Term(_), n) ==
            IF n = 0 THEN Num(0)
            ELSE NumAdd(SumOver(Term, n - 1), Term(n))
        SrcX(i) == Num(points[i].x)
        SrcY(i) == Num(points[i].y)
        DstX(i) == Num(REFERENCE_LANDMARKS[i][1])
        DstY(i) == Num(REFERENCE_LANDMARKS[i][2])
        \* lines 72-84
        Matrix(srcCx, srcCy, dstCx, dstCy, A, B, D, root) ==
            LET scale == NumDiv(root, D)
                cos == NumDiv(A, root)
                sin == NumDiv(B, root)
                T_a == NumMul(scale, cos)
                T_b == NumMul(NumNeg(scale), sin)
                T_c == NumMul(scale, sin)
                T_d == NumMul(scale, cos)
                tx == NumSub(dstCx,
                             NumAdd(NumMul(T_a, srcCx), NumMul(T_b, srcCy)))
                ty == NumSub(dstCy,
                             NumAdd(NumMul(T_c, srcCx), NumMul(T_d, srcCy)))
            IN  [threw |-> FALSE, matrix |-> <<T_a, T_b, tx, T_c, T_d, ty>>]
        \* lines 40-56
        Sums(srcCx, srcCy, dstCx, dstCy) ==
            LET srcDemean(i) ==
                    <<NumSub(SrcX(i), srcCx), NumSub(SrcY(i), srcCy)>>
                dstDemean(i) ==
                    <<NumSub(DstX(i), dstCx), NumSub(DstY(i), dstCy)>>
                TermA(i) == NumAdd(NumMul(srcDemean(i)[1], dstDemean(i)[1]),
                                   NumMul(srcDemean(i)[2], dstDemean(i)[2]))
                TermB(i) == NumSub(NumMul(srcDemean(i)[1], dstDemean(i)[2]),
                                   NumMul(srcDemean(i)[2], dstDemean(i)[1]))
                TermD(i) == NumAdd(NumMul(srcDemean(i)[1], srcDemean(i)[1]),
                                   NumMul(srcDemean(i)[2], srcDemean(i)[2]))
            IN  CHOOSE r \in
                    {Matrix(srcCx, srcCy, dstCx, dstCy, s[1], s[2], s[3],
                            NumSqrt(NumAdd(NumMul(s[1], s[1]),
                                           NumMul(s[2], s[2])))) :
                        s \in {<<SumOver(TermA, 5), SumOver(TermB, 5),
                                 SumOver(TermD, 5)>>}} : TRUE
    \* lines 30-37
    IN  CHOOSE r \in
            {Sums(c[1], c[2], c[3], c[4]) :
                c \in {<<NumDiv(SumOver(SrcX, 5), Num(5)),
                         NumDiv(SumOver(SrcY, 5), Num(5)),
                         NumDiv(SumOver(DstX, 5), Num(5)),
                         NumDiv(SumOver(DstY, 5), Num(5))>>}} : TRUE

\* ---- estimateAffineTransform on its own
\* the Reference Layout as points
Reference ==
    [i \in 1..5 |-> [x |-> REFERENCE_LANDMARKS[i][1],
                     y |-> REFERENCE_LANDMARKS[i][2]]]

\* the lists of points offered to estimateAffineTransform
AlignInputs ==
    LET \* p turned by q quarter turns about the origin
        RECURSIVE Turn(_, _)
        Turn(p, q) ==
            IF q = 0 THEN p ELSE Turn([x |-> 0 - p.y, y |-> p.x], q - 1)
        \* the Reference Layout turned by q quarter turns, enlarged s times
        \* and moved by off
        Similar(q, s, off) ==
            [i \in 1..5 |-> [x |-> s * Turn(Reference[i], q).x + off[1],
                             y |-> s * Turn(Reference[i], q).y + off[2]]]
        \* five points at one place (D = 0 at line 53)
        Coincident(p) == [i \in 1..5 |-> [x |-> p[1], y |-> p[2]]]
        \* five points, not all at one place, whose correlation with the
        \* Reference Layout is zero (A = 0 and B = 0 at line 56 while D > 0)
        RefSum(c) == REFERENCE_LANDMARKS[1][c] + REFERENCE_LANDMARKS[2][c]
                     + REFERENCE_LANDMARKS[3][c] + REFERENCE_LANDMARKS[4][c]
                     + REFERENCE_LANDMARKS[5][c]
        Uncorrelated ==
            << [x |-> 5 * REFERENCE_LANDMARKS[2][1] - RefSum(1),
                y |-> RefSum(2) - 5 * REFERENCE_LANDMARKS[2][2]],
               [x |-> RefSum(1) - 5 * REFERENCE_LANDMARKS[1][1],
                y |-> 5 * REFERENCE_LANDMARKS[1][2] - RefSum(2)],
               [x |-> 0, y |-> 0], [x |-> 0, y |-> 0], [x |-> 0, y |-> 0] >>
        FivePoints ==
            {Similar(q, s, off) :
                q \in 0..3, s \in {1, 2},
                off \in {<<0, 0>>, <<30000, -50000>>, <<-100000, 70000>>}}
            \cup {Coincident(p) : p \in {<<0, 0>>, <<560000, 560000>>}}
            \cup {Uncorrelated}
    IN  FivePoints
        \cup {SubSeq(s, 1, 4) : s \in FivePoints}
        \cup {Append(s, s[1]) : s \in FivePoints}
        \cup {<<>>}

AlignInit ==
    /\ BrokerIdle /\ GalleryIdle /\ RemapIdle /\ FrameIdle
    /\ TensorIdle /\ WarpIdle /\ DetectorIdle
    /\ srcPoints \in AlignInputs
    /\ alignResult = NoAlign
    /\ last = "init"

\* a call of estimateAffineTransform with the points chosen
CallEstimate ==
    /\ last = "init"
    /\ alignResult' = estimateAffineTransform(srcPoints)
    /\ last' = "estimateAffineTransform"
    /\ UNCHANGED <<srcPoints, inputData, inputBGR, tensorData, sharedCanvas,
                   warpCalls, warpSource, warpMatrix, bitmap, runningMode,
                   configured, files, invoked, galleryVars, remapVars,
                   frameVars, brokerState>>

AlignSpec == AlignInit /\ [][CallEstimate]_vars

\* ----------------------------------------------- runInference (the tensor)
\* the number of pixels of an image (totalPixels, line 62, is 112 * 112)
NumPixels == 2

\* Math.round of a number: the integer at or below x + 1/2
Round(x) == (2 * x[1] + x[2]) \div (2 * x[2])

\* lines 65-104: the samples <<r, g, b>> of every pixel after step 4 has
\* scaled them by newY / y and clamped them; data is the RGBA sequence
Equalized(data) ==
    LET R(i) == data[4 * (i - 1) + 1]
        G(i) == data[4 * (i - 1) + 2]
        B(i) == data[4 * (i - 1) + 3]
        \* 0.299 * r + 0.587 * g + 0.114 * b
        Y(i) == Rat(299 * R(i) + 587 * G(i) + 114 * B(i), 1000)
        \* lines 67-74
        histogram ==
            [l \in 0..255 |->
                Cardinality({i \in 1..NumPixels : Round(Y(i)) = l})]
        \* lines 77-82: cdf[l] is the sum of histogram[0] to histogram[l]
        \* (added up by halves to keep the evaluation shallow)
        RECURSIVE Sum(_, _)
        Sum(lo, hi) ==
            IF lo = hi THEN histogram[lo]
            ELSE Sum(lo, (lo + hi) \div 2) + Sum((lo + hi) \div 2 + 1, hi)
        cdf == [l \in 0..255 |-> Sum(0, l)]
        \* line 85: the first entry above 0, or 0
        cdfMin ==
            IF \A l \in 0..255 : cdf[l] = 0 THEN 0
            ELSE cdf[CHOOSE l \in 0..255 :
                        cdf[l] > 0 /\ \A k \in 0..(l - 1) : cdf[k] = 0]
        \* lines 86-89: a Uint8Array stores NaN and the infinities (a division
        \* by 0) as 0 and every other number modulo 256
        map ==
            [l \in 0..255 |->
                IF NumPixels - cdfMin = 0 THEN 0
                ELSE Round(Rat((cdf[l] - cdfMin) * 255, NumPixels - cdfMin))
                     % 256]
        \* lines 98-99
        ratio(i) ==
            IF Y(i)[1] > 0 THEN RDiv(Rat(map[Round(Y(i))], 1), Y(i))
            ELSE Rat(1, 1)
        \* Math.min(255, Math.max(0, v))
        Clamp(v) ==
            IF RGreater(Rat(0, 1), v) THEN Rat(0, 1)
            ELSE IF RGreater(v, Rat(255, 1)) THEN Rat(255, 1)
            ELSE v
    IN  [i \in 1..NumPixels |->
            << Clamp(RMul(Rat(R(i), 1), ratio(i))),
               Clamp(RMul(Rat(G(i), 1), ratio(i))),
               Clamp(RMul(Rat(B(i), 1), ratio(i))) >>]

\* lines 115-117: (v - 127.5) / 127.5
Normalize(v) == RDiv(RSub(v, Rat(255, 2)), Rat(255, 2))

\* lines 115-117: the position of channel c (0, 1, 2) of pixel i
TensorIndexInterleaved(i, c) == 3 * (i - 1) + c + 1
TensorIndex(i, c) == i + c * NumPixels

\* runInference, lines 55-121: the tensor handed to session.run
runInference(data, bgr) ==
    LET eq == Equalized(data)
        \* lines 106-111: r and b change places
        Sample(i, c) ==
            IF bgr THEN eq[i][3 - c] ELSE eq[i][c + 1]
    IN  [k \in 1..(3 * NumPixels) |->
            LET at == CHOOSE ic \in (1..NumPixels) \X (0..2) :
                          TensorIndex(ic[1], ic[2]) = k
            IN  Normalize(Sample(at[1], at[2]))]

\* ---- runInference on its own
\* the images offered: every pixel one of six colours, alpha 255
TensorInputs ==
    LET Colours == {<<0, 0, 0>>, <<100, 100, 100>>, <<255, 255, 255>>,
                    <<200, 50, 10>>, <<10, 50, 200>>, <<255, 0, 0>>}
        RECURSIVE Images(_)
        Images(n) ==
            IF n = 0 THEN {<<>>}
            ELSE {img \o <<c[1], c[2], c[3], 255>> :
                    img \in Images(n - 1), c \in Colours}
    IN  Images(NumPixels)

TensorInit ==
    /\ BrokerIdle /\ GalleryIdle /\ RemapIdle /\ FrameIdle
    /\ AlignIdle /\ WarpIdle /\ DetectorIdle
    /\ inputData \in TensorInputs
    /\ inputBGR \in BOOLEAN
    /\ tensorData = <<>>
    /\ last = "init"

\* a call of runInference up to session.run
CallRunInference ==
    /\ last = "init"
    /\ tensorData' = runInference(inputData, inputBGR)
    /\ last' = "runInference"
    /\ UNCHANGED <<inputData, inputBGR, srcPoints, alignResult, sharedCanvas,
                   warpCalls, warpSource, warpMatrix, bitmap, runningMode,
                   configured, files, invoked, galleryVars, remapVars,
                   frameVars, brokerState>>

TensorSpec == TensorInit /\ [][CallRunInference]_vars

\* --------------------------------------------------------------- warpFace
\* number of warpFace calls in a run
MaxWarps == 2
\* the cells of the output surface (one row of the 112 x 112 canvas)
CanvasCells == 3

\* the sample of the source that setTransform(a, ..., tx, ...) and
\* drawImage(source, 0, 0) put on cell j, 0 (transparent) when the cell lies
\* outside the image of the source; matrix is <<a, tx>> of one row
SourceAt(source, matrix, j) ==
    LET n == j - 1 - matrix[2]
    IN  IF n >= 0 /\ n \div matrix[1] < Len(source)
        THEN source[n \div matrix[1] + 1]
        ELSE 0

\* warpFace, lines 96-125: the canvas is created on the first call and drawn
\* on with source-over compositing; nothing clears it between calls
warpFace ==
    /\ warpCalls < MaxWarps
    /\ \E source \in {<<1>>, <<2>>, <<1, 1>>, <<1, 2>>, <<2, 1>>, <<2, 2>>},
          matrix \in {<<1, 0>>, <<1, 1>>, <<1, 2>>, <<2, 0>>, <<2, 1>>} :
          LET canvas == IF sharedCanvas = <<>>
                        THEN [j \in 1..CanvasCells |-> 0]
                        ELSE sharedCanvas
              drawn == [j \in 1..CanvasCells |->
                           IF SourceAt(source, matrix, j) # 0
                           THEN SourceAt(source, matrix, j)
                           ELSE canvas[j]]
          IN  /\ sharedCanvas' = drawn
              /\ bitmap' = drawn
              /\ warpSource' = source
              /\ warpMatrix' = matrix
    /\ warpCalls' = warpCalls + 1
    /\ last' = "warpFace"
    /\ UNCHANGED <<srcPoints, alignResult, inputData, inputBGR, tensorData,
                   runningMode, configured, files, invoked, galleryVars,
                   remapVars, frameVars, brokerState>>

WarpInit ==
    /\ BrokerIdle /\ GalleryIdle /\ RemapIdle /\ FrameIdle
    /\ AlignIdle /\ TensorIdle /\ WarpIdle /\ DetectorIdle
    /\ last = "init"

WarpSpec == WarpInit /\ [][warpFace]_vars

\* ------------------------------------------------- FaceDetectionService
\* number of processFile invocations that reach the detector in a run
MaxFiles == 2

\* faceLandmarker.setOptions({runningMode: mode}) called by file u, which
\* then waits at pc: the library may apply the mode at once or when the
\* promise resolves
SetOptions(u, mode, pc) ==
    \E lazy \in BOOLEAN :
        /\ files' = [v \in 1..(IF u > Len(files) THEN u ELSE Len(files)) |->
                        IF v = u THEN [pc |-> pc, lazy |-> lazy] ELSE files[v]]
        /\ configured' = IF lazy THEN configured ELSE mode

\* detect, lines 46-56, called by processFrame: detectForVideo whatever
\* runningMode is
detect ==
    /\ invoked' = [call |-> "detectForVideo", mode |-> configured]
    /\ last' = "detect"
    /\ UNCHANGED <<runningMode, configured, files>>
    /\ UNCHANGED <<srcPoints, alignResult, inputData, inputBGR, tensorData,
                   sharedCanvas, warpCalls, warpSource, warpMatrix, bitmap,
                   galleryVars, remapVars, frameVars, brokerState>>

\* processFile reaches detectImage, lines 58-65: with runningMode not IMAGE
\* the field is set and setOptions awaited, otherwise faceLandmarker.detect
\* is called at once (lines 67-72)
detectImage ==
    /\ Len(files) < MaxFiles
    /\ IF runningMode # "IMAGE"
       THEN /\ runningMode' = "IMAGE"
            /\ SetOptions(Len(files) + 1, "IMAGE", "toImage")
            /\ UNCHANGED invoked
       ELSE /\ files' = Append(files, [pc |-> "detected", lazy |-> FALSE])
            /\ invoked' = [call |-> "detect", mode |-> configured]
            /\ UNCHANGED <<runningMode, configured>>
    /\ last' = "detectImage"
    /\ UNCHANGED <<srcPoints, alignResult, inputData, inputBGR, tensorData,
                   sharedCanvas, warpCalls, warpSource, warpMatrix, bitmap,
                   galleryVars, remapVars, frameVars, brokerState>>

\* lines 65-72: setOptions({runningMode: 'IMAGE'}) resolves and
\* faceLandmarker.detect is called
ImageModeSet(u) ==
    /\ u \in 1..Len(files)
    /\ files[u].pc = "toImage"
    /\ configured' = IF files[u].lazy THEN "IMAGE" ELSE configured
    /\ invoked' = [call |-> "detect", mode |-> configured']
    /\ files' = [files EXCEPT ![u] = [pc |-> "detected", lazy |-> FALSE]]
    /\ last' = "detectImageResolved"
    /\ UNCHANGED runningMode
    /\ UNCHANGED <<srcPoints, alignResult, inputData, inputBGR, tensorData,
                   sharedCanvas, warpCalls, warpSource, warpMatrix, bitmap,
                   galleryVars, remapVars, frameVars, brokerState>>

\* switchToVideoMode, lines 75-81, called by processFile after detectImage
switchToVideoMode(u) ==
    /\ u \in 1..Len(files)
    /\ files[u].pc = "detected"
    /\ IF runningMode # "VIDEO"
       THEN /\ runningMode' = "VIDEO"
            /\ SetOptions(u, "VIDEO", "toVideo")
       ELSE /\ files' = [files EXCEPT ![u] = [pc |-> "done", lazy |-> FALSE]]
            /\ UNCHANGED <<runningMode, configured>>
    /\ last' = "switchToVideoMode"
    /\ UNCHANGED invoked
    /\ UNCHANGED <<srcPoints, alignResult, inputData, inputBGR, tensorData,
                   sharedCanvas, warpCalls, warpSource, warpMatrix, bitmap,
                   galleryVars, remapVars, frameVars, brokerState>>

\* line 79: setOptions({runningMode: 'VIDEO'}) resolves; processFile goes on
VideoModeSet(u) ==
    /\ u \in 1..Len(files)
    /\ files[u].pc = "toVideo"
    /\ configured' = IF files[u].lazy THEN "VIDEO" ELSE configured
    /\ files' = [files EXCEPT ![u] = [pc |-> "done", lazy |-> FALSE]]
    /\ last' = "switchedToVideo"
    /\ UNCHANGED <<runningMode, invoked>>
    /\ UNCHANGED <<srcPoints, alignResult, inputData, inputBGR, tensorData,
                   sharedCanvas, warpCalls, warpSource, warpMatrix, bitmap,
                   galleryVars, remapVars, frameVars, brokerState>>

DetectorInit ==
    /\ BrokerIdle /\ GalleryIdle /\ RemapIdle /\ FrameIdle /\ KernelIdle
    /\ last = "init"

DetectorNext ==
    \/ detect
    \/ detectImage
    \/ \E u \in 1..MaxFiles :
          \/ ImageModeSet(u)
          \/ switchToVideoMode(u)
          \/ VideoModeSet(u)

DetectorSpec == DetectorInit /\ [][DetectorNext]_vars

\* ------------------------------------------------------- specifications
Next ==
    \/ \E b \in Buffers : getEmbedding(b)
    \/ OnMessage
    \/ PostLoadModel
    \/ OnWorkerMessage
    \/ CreateSucceeds
    \/ CreateFails
    \/ \E id \in Ids : RunSucceeds(id)
    \/ \E id \in Ids : RunFails(id)

Spec == Init /\ [][Next]_vars

\* the worker handles every message, every construction and every forward
\* pass terminates, and the primary context handles every message
FairSpec ==
    /\ Spec
    /\ WF_vars(OnWorkerMessage)
    /\ WF_vars(CreateSucceeds \/ CreateFails)
    /\ \A id \in Ids : WF_vars(RunSucceeds(id) \/ RunFails(id))
    /\ WF_vars(OnMessage)

TypeOK ==
    /\ worker \in BOOLEAN
    /\ isModelLoaded \in BOOLEAN
    /\ DOMAIN pendingRequests \subseteq Ids
    /\ Len(calls) <= MaxCalls
    /\ usedIds \subseteq Ids
    /\ detached \subseteq Buffers
    /\ running \subseteq Ids
    /\ creating \in Nat
    /\ created \in Nat
    /\ answers \in [Ids -> Nat]

\* ------------------------------------------------------ claim vocabulary
\* the indices of the getEmbedding calls made so far
Issued == 1..Len(calls)
\* the step is an invocation of worker.onmessage (the primary context takes
\* the worker's next message)
OnMessageStep == outbox # <<>> /\ outbox' = Tail(outbox)
\* the step is an invocation of the worker's listener
ListenerStep == inbox # <<>> /\ inbox' = Tail(inbox)
\* the worker state the listener can change
workerState == <<session, isLoading, creating, created, running, outbox>>

\* ------------------------------------------------------------------- C1
\* C1: when the primary context receives a RESULT (ERROR) message carrying a
\* call's id, that call's promise is resolved (rejected) with the message's
\* payload; every call with another id is left as it was, and resolve/reject
\* is never invoked more than once for a call.
C1_ResponseSettlesItsCall ==
    [][ /\ \A c \in 1..Len(calls') : calls'[c].settles <= 1
        /\ (OnMessageStep /\ Head(outbox).type \in {"RESULT", "ERROR"}
                          /\ Head(outbox).id # NoId)
           => LET m == Head(outbox) IN
              \A c \in Issued :
                 IF calls[c].id = m.id
                 THEN /\ calls[c].state = "pending"
                      /\ calls'[c].state =
                           (IF m.type = "RESULT" THEN "resolved" ELSE "rejected")
                      /\ calls'[c].value = m.payload
                 ELSE calls'[c] = calls[c]
      ]_vars

\* a RESULT has just resolved one call while another call is still pending
C1_Witness ==
    /\ last = "onmessage:RESULT"
    /\ \E c, d \in Issued :
          /\ calls[c].state = "resolved" /\ calls[c].value \in Embeddings
          /\ calls[d].state = "pending" /\ calls[d].id \in DOMAIN pendingRequests

\* ------------------------------------------------------------------- C2
\* C2: pendingRequests holds a record for an id if and only if the call that
\* was issued with that id has not been resolved or rejected yet, and the
\* record belongs to that call.
C2_PendingIffUnsettled ==
    /\ DOMAIN pendingRequests =
          {calls[c].id : c \in {d \in Issued : /\ calls[d].id # NoId
                                               /\ calls[d].state = "pending"}}
    /\ \A i \in DOMAIN pendingRequests : calls[pendingRequests[i]].id = i

\* ------------------------------------------------------------------- C3
\* C3: every getEmbedding call is eventually resolved or rejected, and the
\* worker never posts more than one RESULT or ERROR message for an id; a call
\* that is settled by the worker got exactly one.
C3_EveryCallSettles ==
    /\ \A c \in 1..MaxCalls :
          (Len(calls) >= c) ~> (Len(calls) >= c /\ calls[c].state # "pending")
    /\ [](\A i \in Ids : answers[i] <= 1)
    /\ [](\A c \in Issued :
            (calls[c].id # NoId /\ calls[c].state # "pending"
               /\ calls[c].value # "DataCloneError") => answers[calls[c].id] = 1)

\* all calls are settled: one was answered 'Model not loaded' because its
\* RECOGNIZE was handled without an engine, another one got an embedding
C3_Witness ==
    /\ Len(calls) = MaxCalls
    /\ \A c \in Issued : calls[c].state # "pending"
    /\ \E c, d \in Issued :
          /\ calls[c].value = "Model not loaded"
          /\ calls[d].state = "resolved"

\* ------------------------------------------------------------------- C4
\* C4: handling a RESULT or ERROR message whose id is missing or is not a key
\* of pendingRequests changes neither pendingRequests nor any promise and
\* raises no exception.
C4_UnmatchedResponseDropped ==
    [][ (OnMessageStep /\ Head(outbox).type \in {"RESULT", "ERROR"}
                       /\ (\/ Head(outbox).id = NoId
                           \/ Head(outbox).id \notin DOMAIN pendingRequests))
        => (UNCHANGED <<pendingRequests, calls>> /\ ~handlerThrew')
      ]_vars

\* an ERROR without id was dropped while a call was pending
C4_Witness ==
    /\ last = "onmessage:dropped"
    /\ DOMAIN pendingRequests # {}
    /\ \E c \in Issued : calls[c].state = "pending"
    /\ ~handlerThrew

\* ------------------------------------------------------------------- C5
\* C5: a getEmbedding call made while there is no worker returns a promise
\* rejected with 'No Worker', stores no pending record and posts no message.
C5_NoWorkerFailsImmediately ==
    [][ (~worker /\ Len(calls') = Len(calls) + 1)
        => /\ calls'[Len(calls')].state = "rejected"
           /\ calls'[Len(calls')].value = "No Worker"
           /\ pendingRequests' = pendingRequests
           /\ DOMAIN pendingRequests' = {}
           /\ inbox' = inbox
      ]_vars

\* a call was made without a worker
C5_Witness ==
    /\ ~worker
    /\ last = "getEmbedding:NoWorker"
    /\ Len(calls) >= 1
    /\ calls[Len(calls)].value = "No Worker"

\* ------------------------------------------------------------------- C6
\* C6: a RECOGNIZE message handled while the worker holds no engine starts no
\* forward pass and is answered with ERROR 'Model not loaded' carrying the
\* request's id; when the primary context handles that answer the call with
\* this id is rejected and its record removed.
C6_NotLoadedRejectsTheCall ==
    [][ /\ (ListenerStep /\ Head(inbox).type = "RECOGNIZE" /\ session = NoSession)
           => /\ running' = running
              /\ outbox' = Append(outbox,
                     FromWorker("ERROR", "Model not loaded", Head(inbox).id))
        /\ (OnMessageStep /\ Head(outbox).type = "ERROR"
                          /\ Head(outbox).payload = "Model not loaded")
           => /\ \E c \in Issued : /\ calls[c].id = Head(outbox).id
                                   /\ calls[c].state = "pending"
                                   /\ calls'[c].state = "rejected"
                                   /\ calls'[c].value = "Model not loaded"
              /\ Head(outbox).id \notin DOMAIN pendingRequests'
      ]_vars

\* a call was rejected with 'Model not loaded' and is no longer pending
C6_Witness ==
    /\ last = "onmessage:ERROR"
    /\ \E c \in Issued : /\ calls[c].state = "rejected"
                         /\ calls[c].value = "Model not loaded"
                         /\ calls[c].id \notin DOMAIN pendingRequests

\* ------------------------------------------------------------------- C7
\* C7: at most one engine construction is in progress, at most one engine
\* instance is ever constructed, and a LOAD_MODEL message handled while a
\* load is in progress changes no worker state and posts no message.
C7_SingleConstruction ==
    [][ /\ creating' <= 1
        /\ created' <= 1
        /\ (ListenerStep /\ Head(inbox).type = "LOAD_MODEL" /\ isLoading)
           => UNCHANGED workerState
      ]_vars

\* a LOAD_MODEL message was ignored while a construction was awaited
C7_Witness ==
    /\ last = "LOAD_MODEL:ignored"
    /\ isLoading
    /\ creating = 1
    /\ session = NoSession

\* ------------------------------------------------------------------- C8
\* C8 as stated: a LOAD_MODEL message handled while an engine is held
\* releases the engine and starts a new construction.
C8_ReloadWhileReady ==
    [][ (ListenerStep /\ Head(inbox).type = "LOAD_MODEL" /\ session # NoSession)
        => /\ session' = NoSession
           /\ isLoading'
           /\ creating' = creating + 1
      ]_vars

\* C8 amended: a LOAD_MODEL message handled while an engine is held changes
\* no worker state and posts no message; an engine, once held, is neither
\* released nor replaced.
C8_LoadWhileReadyIgnored ==
    [][ /\ (ListenerStep /\ Head(inbox).type = "LOAD_MODEL" /\ session # NoSession)
           => UNCHANGED workerState
        /\ session # NoSession => session' = session
      ]_vars

\* a LOAD_MODEL message was ignored while the engine was held
C8_Witness ==
    /\ last = "LOAD_MODEL:ignored"
    /\ session # NoSession
    /\ ~isLoading
    /\ creating = 0

\* ------------------------------------------------------------------- C9
\* C9: when the engine construction fails the worker posts one ERROR message
\* with the diagnostic and no id, holds no engine and is not loading, so the
\* guard of LOAD_MODEL is open again; handling an ERROR message leaves
\* isModelLoaded as it is, and isModelLoaded is true only after a
\* construction succeeded.
C9_LoadFailureRecovers ==
    [][ /\ (creating' = creating - 1 /\ created' = created)
           => /\ outbox' = Append(outbox, FromWorker("ERROR", "load failed", NoId))
              /\ session' = NoSession
              /\ isLoading' = FALSE
              /\ running' = running
        /\ (OnMessageStep /\ Head(outbox).type = "ERROR")
           => isModelLoaded' = isModelLoaded
        /\ isModelLoaded' => created' >= 1
      ]_vars

\* after a failed construction (its ERROR is still in the outbox) a later
\* LOAD_MODEL message has started a fresh construction
C9_Witness ==
    /\ last = "LOAD_MODEL:create"
    /\ creating = 1
    /\ created = 0
    /\ ~isModelLoaded
    /\ \E k \in 1..Len(outbox) : outbox[k] = FromWorker("ERROR", "load failed", NoId)

\* ------------------------------------------------------------------ C10
\* C10: the worker never has two forward passes (session.run) in progress at
\* the same time.
C10_OneForwardPass == Cardinality(running) <= 1

\* ------------------------------------------------------------------ C11
\* chain k took a step of the catch block of processFrame
Caught(k) == last' = "catch" /\ loops'[k] # loops[k]

\* C11: when warpFace, getEmbedding or convertToBlob rejects while a frame is
\* processed, the catch neither enrolls nor matches for that face and goes
\* on to the next face without calling again; and no processFrame invocation
\* ends without scheduling the next one.
C11_RejectionCaughtLoopGoesOn ==
    [][ \A k \in 1..Len(loops) :
          /\ Caught(k)
             => /\ knownFaces' = knownFaces
                /\ currentMatch' = currentMatch
                /\ query' = NoQuery
                /\ loops'[k].faces = Tail(loops[k].faces)
          /\ loops'[k].pc # "dead"
      ]_vars

\* ------------------------------------------------------------------ C12
\* the alignment of chain k met a face with a missing landmark in this step
GeometryThrows(k) ==
    /\ loops[k].pc \in {"detect", "warp", "embed", "blob"}
    /\ loops'[k] # loops[k]
    /\ loops'[k].faces # <<>>
    /\ ~Head(loops'[k].faces)

\* C12: an exception of the geometry step while a frame is processed aborts
\* that frame only: the next processFrame invocation is scheduled.
C12_GeometryErrorKeepsLoop ==
    [][ \A k \in 1..Len(loops) : GeometryThrows(k) => loops'[k].pc = "call" ]_vars

\* ------------------------------------------------------------------ C13
\* C13: every embedding in the gallery was computed with the channel-order
\* flag equal to the current value of useBGR.
C13_GalleryUnderCurrentFlag ==
    \A i \in 1..Len(knownFaces) :
        ComputedUnder(knownFaces[i].embedding) = useBGR

\* ------------------------------------------------------------------ C14
\* s is t with some entries removed
RECURSIVE IsSubSeq(_, _)
IsSubSeq(s, t) ==
    IF s = <<>> THEN TRUE
    ELSE IF t = <<>> THEN FALSE
    ELSE IF Head(s) = Head(t) THEN IsSubSeq(Tail(s), Tail(t))
    ELSE IsSubSeq(s, Tail(t))
\* the step enrolled a face: the gallery is the old one with one entry after it
Appended ==
    /\ last' \in {"snapshot", "fileEnrolled"}
    /\ Len(knownFaces') = Len(knownFaces) + 1
    /\ SubSeq(knownFaces', 1, Len(knownFaces)) = knownFaces
\* the step was deleteKnownFace: entries were removed, the rest kept in order
Removed ==
    /\ last' = "deleteKnownFace"
    /\ IsSubSeq(knownFaces', knownFaces)

\* C14 as stated: the gallery is changed only by addKnownFace, which appends,
\* and by deleteKnownFace, which only removes entries.
C14_OnlyAddAndDelete ==
    [][ knownFaces' # knownFaces => (Appended \/ Removed) ]_vars

\* C14 amended: the gallery is changed only by addKnownFace, which appends,
\* by deleteKnownFace, which only removes entries, and by toggleColorMode,
\* which empties it; the remaining entries stay in enrollment order.
C14_OnlyAddDeleteAndToggle ==
    [][ /\ knownFaces' # knownFaces
           => \/ Appended
              \/ Removed
              \/ last' = "toggleColorMode"
        /\ last' = "toggleColorMode" => knownFaces' = <<>>
      ]_vars

\* toggleColorMode emptied the gallery after an upload had been enrolled
C14_Witness ==
    /\ last = "toggleColorMode"
    /\ knownFaces = <<>>
    /\ \E u \in 1..Len(uploads) : uploads[u].pc = "enrolled"

\* ------------------------------------------------------------------ C15
\* the timestamps of the gallery are pairwise distinct
TimestampsDistinct(faces) ==
    \A i, j \in 1..Len(faces) :
        faces[i].timestamp = faces[j].timestamp => i = j
\* the sequence without its i-th entry
Without(faces, i) ==
    [k \in 1..(Len(faces) - 1) |-> IF k < i THEN faces[k] ELSE faces[k + 1]]

\* C15: after every addKnownFace and deleteKnownFace, enrollments within one
\* clock tick included, the timestamps of the gallery are pairwise distinct,
\* and deleteKnownFace(f) removes exactly the entry f and leaves every other
\* entry in place.
C15_TimestampIdentifiesEntry ==
    [][ /\ TimestampsDistinct(knownFaces')
        /\ last' = "deleteKnownFace"
           => \E i \in 1..Len(knownFaces) : knownFaces' = Without(knownFaces, i)
      ]_vars

\* ------------------------------------------------------------------ C16
\* the cosine scores of the query against the entries of the gallery
ScoreOf(faces, e, i) == cosineSimilarity(e, faces[i].embedding)
\* the entries whose score no other entry exceeds
Maximal(faces, e) ==
    {i \in 1..Len(faces) :
        \A j \in 1..Len(faces) : RGeq(ScoreOf(faces, e, i), ScoreOf(faces, e, j))}
\* the first of them in gallery order
FirstMaximal(faces, e) ==
    CHOOSE i \in Maximal(faces, e) : \A j \in Maximal(faces, e) : i <= j
\* the step is a matchFace call on the service
MatchStep == last' = "matchFace"

\* C16: matchFace on a non-empty gallery, with s the greatest cosine score of
\* the query over the entries: when s > 0.4 the result names an entry scoring
\* s and its score is 0.8 + ((s - 0.4) / 0.6) * 0.2 = (s + 2) / 3; otherwise
\* the result is 'Unknown' with score s.  A result that names an entry has a
\* score within [0.8, 1.0].
C16_BestEntryRemapped ==
    [][ (MatchStep /\ Len(knownFaces) > 0)
        => LET e == query'
               s == ScoreOf(knownFaces, e, FirstMaximal(knownFaces, e))
               r == matchResult'
           IN  /\ IF RGreater(s, Rat(2, 5))
                  THEN /\ \E i \in Maximal(knownFaces, e) :
                             r.name = knownFaces[i].name
                       /\ REq(r.score, RDiv(RAdd(s, Rat(2, 1)), Rat(3, 1)))
                  ELSE /\ r.name = "Unknown"
                       /\ REq(r.score, s)
               /\ r.name # "Unknown"
                  => /\ RGeq(r.score, Rat(4, 5))
                     /\ RGeq(Rat(1, 1), r.score)
      ]_vars

\* a query matched an entry of a gallery of two, with a remapped score
C16_Witness ==
    /\ last = "matchFace"
    /\ Len(knownFaces) = 2
    /\ matchResult.name \in Names
    /\ matchResult = MatchFace(knownFaces, query)
    /\ RGreater(matchResult.score, Rat(4, 5))

\* ------------------------------------------------------------------ C17
\* C17 as stated: a best raw score of exactly 0.4 maps to 0.8, 1.0 maps to
\* 1.0, and 0.39999 is reported as 'Unknown' with its raw value.
C17_RemapBoundaries ==
    last = "threshold"
    => /\ REq(bestScore, Rat(2, 5))
          => (matchResult.name = bestMatch /\ REq(matchResult.score, Rat(4, 5)))
       /\ REq(bestScore, Rat(1, 1))
          => (matchResult.name = bestMatch /\ REq(matchResult.score, Rat(1, 1)))
       /\ REq(bestScore, Rat(39999, 100000))
          => (matchResult.name = "Unknown"
                /\ REq(matchResult.score, Rat(39999, 100000)))

\* C17 amended: a best raw score of exactly 0.4 is not remapped, it is
\* reported as 'Unknown' with the raw value 0.4 (only scores above 0.4 are
\* remapped, to scores above 0.8); 1.0 maps to 1.0; 0.39999 is reported as
\* 'Unknown' with its raw value.
C17_RemapBoundariesStrict ==
    last = "threshold"
    => /\ REq(bestScore, Rat(2, 5))
          => (matchResult.name = "Unknown" /\ REq(matchResult.score, Rat(2, 5)))
       /\ RGreater(bestScore, Rat(2, 5))
          => (matchResult.name = bestMatch
                /\ RGreater(matchResult.score, Rat(4, 5)))
       /\ REq(bestScore, Rat(1, 1))
          => (matchResult.name = bestMatch /\ REq(matchResult.score, Rat(1, 1)))
       /\ REq(bestScore, Rat(39999, 100000))
          => (matchResult.name = "Unknown"
                /\ REq(matchResult.score, Rat(39999, 100000)))

\* the threshold step was applied to the score 0.4 of an enrolled name
C17_Witness ==
    /\ last = "threshold"
    /\ REq(bestScore, Rat(2, 5))
    /\ bestMatch \in Names
    /\ matchResult.name = "Unknown"

\* ------------------------------------------------------------------ C18
\* C18: matchFace on an empty gallery returns name 'Unknown' and score 0 for
\* every query.
C18_EmptyGalleryUnknown ==
    [][ (MatchStep /\ Len(knownFaces) = 0)
        => matchResult' = [name |-> "Unknown", score |-> Rat(0, 1)]
      ]_vars

\* matchFace was called on the empty gallery
C18_Witness ==
    /\ last = "matchFace"
    /\ knownFaces = <<>>
    /\ query \in Vecs
    /\ matchResult = [name |-> "Unknown", score |-> Rat(0, 1)]

\* ------------------------------------------------------------------ C19
\* C19: when the greatest score exceeds the threshold, the name matchFace
\* reports is that of the first entry, in gallery order, that attains it.
C19_FirstMaximalWins ==
    [][ (MatchStep /\ Len(knownFaces) > 0
           /\ RGreater(ScoreOf(knownFaces, query',
                               FirstMaximal(knownFaces, query')), Rat(2, 5)))
        => matchResult'.name =
              knownFaces[FirstMaximal(knownFaces, query')].name
      ]_vars

\* two entries with different names tie for the greatest score and the
\* first one was reported
C19_Witness ==
    /\ last = "matchFace"
    /\ Len(knownFaces) = 2
    /\ Maximal(knownFaces, query) = {1, 2}
    /\ knownFaces[1].name # knownFaces[2].name
    /\ matchResult.name = knownFaces[1].name

\* ------------------------------------------------------------------ C20
\* the step is matchFace(e) right after addKnownFace(n, e)
EnrollThenMatch ==
    /\ last = "addKnownFace"
    /\ MatchStep
    /\ query' = knownFaces[Len(knownFaces)].embedding

\* C20 as stated: for every embedding e, name n and prior gallery,
\* addKnownFace(n, e) followed by matchFace(e) returns name n with a
\* remapped score of about 1.0.
C20_EnrollThenMatchSelf ==
    [][ EnrollThenMatch
        => /\ matchResult'.name = knownFaces[Len(knownFaces)].name
           /\ RGeq(matchResult'.score, Rat(999, 1000))
      ]_vars

\* C20 amended: for every embedding e of length at least 1,
\* addKnownFace(n, e) followed by matchFace(e) returns a remapped score of
\* about 1.0 and the name of the first entry whose score against e is the
\* greatest; that name is n when no earlier entry scores as high as e
\* against itself.
C20_EnrollThenMatchFirstMaximal ==
    [][ (EnrollThenMatch /\ SumTo(query', query', Len(query')) >= 1)
        => LET n == Len(knownFaces)
               e == query'
           IN  /\ RGeq(matchResult'.score, Rat(999, 1000))
               /\ RGeq(Rat(1, 1), matchResult'.score)
               /\ matchResult'.name =
                     knownFaces[FirstMaximal(knownFaces, e)].name
               /\ (\A j \in 1..(n - 1) :
                      RGreater(ScoreOf(knownFaces, e, n), ScoreOf(knownFaces, e, j)))
                  => matchResult'.name = knownFaces[n].name
      ]_vars

\* a face was enrolled after a face with another embedding and then matched
C20_Witness ==
    /\ last = "matchFace"
    /\ Len(knownFaces) = 2
    /\ query = knownFaces[2].embedding
    /\ query # knownFaces[1].embedding
    /\ query # <<0, 0>>
    /\ matchResult.name = knownFaces[2].name
    /\ knownFaces[1].name # knownFaces[2].name
    /\ RGeq(matchResult.score, Rat(999, 1000))

\* ------------------------------------------------------------------ C21
\* C21: estimateAffineTransform throws for every list whose number of points
\* is not 5, and returns a matrix of 6 elements without throwing for every
\* list of 5 points.
C21_ExactlyFivePoints ==
    last = "estimateAffineTransform"
    => /\ Len(srcPoints) # 5 => alignResult.threw
       /\ Len(srcPoints) = 5
          => (~alignResult.threw /\ Len(alignResult.matrix) = 6)

\* a list of 6 points was refused
C21_Witness ==
    /\ last = "estimateAffineTransform"
    /\ Len(srcPoints) = 6
    /\ alignResult.threw

\* ------------------------------------------------------------------ C22
\* C22: estimateAffineTransform refuses 5 points that coincide instead of
\* returning a matrix.
C22_DegenerateRefused ==
    (/\ last = "estimateAffineTransform"
     /\ Len(srcPoints) = 5
     /\ \A i \in 1..5 : srcPoints[i] = srcPoints[1])
    => alignResult.threw

\* ------------------------------------------------------------------ C23
\* C23: for the Reference Layout the matrix returned is the identity map
\* (a = 1, b = 0, tx = 0, c = 0, d = 1, ty = 0), and every matrix returned
\* has a = d and b = -c.
C23_IdentityAndSimilarityForm ==
    (last = "estimateAffineTransform" /\ ~alignResult.threw)
    => LET m == alignResult.matrix IN
       /\ srcPoints = Reference
          => /\ NumEq(m[1], Num(1)) /\ NumEq(m[2], Num(0)) /\ NumEq(m[3], Num(0))
             /\ NumEq(m[4], Num(0)) /\ NumEq(m[5], Num(1)) /\ NumEq(m[6], Num(0))
       /\ NumEq(m[1], m[5])
       /\ NumEq(m[2], NumNeg(m[4]))

\* ------------------------------------------------------------------ C24
\* C24: for an image whose pixels all have the same R, G and B, the tensor
\* runInference builds is the plain normalization of the original samples:
\* equalization leaves every pixel unchanged.
C24_UniformImageUnchanged ==
    (/\ last = "runInference"
     /\ \A i \in 1..NumPixels : \A c \in 1..3 :
            inputData[4 * (i - 1) + c] = inputData[c])
    => \A i \in 1..NumPixels : \A c \in 0..2 :
          tensorData[i + c * NumPixels]
            = Normalize(Rat(inputData[4 * (i - 1) + 1
                                      + (IF inputBGR THEN 2 - c ELSE c)], 1))

\* ------------------------------------------------------------------ C25
\* C25: the bitmap a call of warpFace returns holds, on every cell, the
\* sample of that call's source that that call's matrix maps there, and is
\* transparent (0) on the cells outside the image of the source: it does not
\* depend on what earlier calls drew.
C25_CropOfThisCallOnly ==
    last = "warpFace"
    => bitmap = [j \in 1..CanvasCells |-> SourceAt(warpSource, warpMatrix, j)]

C27_ChannelMajorTensor ==
    last = "runInference"
    => /\ Len(tensorData) = 3 * NumPixels
       /\ \A i \in 1..NumPixels :
            LET p == Equalized(inputData)[i]
                first == IF inputBGR THEN p[3] ELSE p[1]
                third == IF inputBGR THEN p[1] ELSE p[3]
            IN  /\ tensorData[i] = Normalize(first)
                /\ tensorData[i + NumPixels] = Normalize(p[2])
                /\ tensorData[i + 2 * NumPixels] = Normalize(third)
                /\ \A c \in 1..3 : RGeq(p[c], Rat(0, 1)) /\ RGeq(Rat(255, 1), p[c])
       /\ \A k \in 1..(3 * NumPixels) :
            RGeq(tensorData[k], Rat(-1, 1)) /\ RGeq(Rat(1, 1), tensorData[k])

\* a tensor was built under useBGR for an image whose two pixels differ and
\* whose red and blue samples differ
C27_Witness ==
    /\ last = "runInference"
    /\ inputBGR
    /\ inputData[1] # inputData[3]
    /\ inputData[1] # inputData[5]
    /\ tensorData[1] # tensorData[1 + 2 * NumPixels]

\* ------------------------------------------------------------------ C28
\* C28: detectForVideo runs only while the detector is in VIDEO mode and
\* faceLandmarker.detect only while it is in IMAGE mode; the runningMode
\* field equals the mode in force in the detector; and when a processFile
\* invocation has got past switchToVideoMode the mode is VIDEO.
C28_ModeMatchesInvocation ==
    /\ invoked.call = "detectForVideo" => invoked.mode = "VIDEO"
    /\ invoked.call = "detect" => invoked.mode = "IMAGE"
    /\ runningMode = configured
    /\ last = "switchedToVideo" => (runningMode = "VIDEO" /\ configured = "VIDEO")

C30_SingleFrameLoop ==
    Cardinality({k \in 1..Len(loops) :
                    loops[k].pc \in {"call", "detect", "warp", "embed", "blob"}})
        <= 1

\* C31: in every reachable state isModelLoaded is true only if the worker
\* holds an engine (MODEL_LOADED is posted after session is assigned and
\* session is never reset), and every RECOGNIZE message the listener takes
\* while isModelLoaded is true starts a forward pass instead of being
\* answered with 'Model not loaded'
C31_LoadedImpliesEngine ==
    /\ [](isModelLoaded => session # NoSession)
    /\ [][(session # NoSession => session' # NoSession)
          /\ ((isModelLoaded /\ ListenerStep
                 /\ Head(inbox).type = "RECOGNIZE")
                => (/\ last' = "RECOGNIZE:run"
                    /\ Head(inbox).id \in running'
                    /\ outbox' = outbox))]_vars
\* a RECOGNIZE message was taken by the listener after the primary context
\* had handled MODEL_LOADED
C31_Witness ==
    isModelLoaded /\ last = "RECOGNIZE:run" /\ session # NoSession

====
